---- MODULE Spec2Model ----
(***************************************************************************)
(* MRU tab tracking of the FLST Chrome extension: the per-window MRU       *)
(* arrays (TabManager), the tracker registry and its reconciliation with   *)
(* the browser (WindowManager), and the skip-next-activation marker.       *)
(* Under Spec handlers run to completion, the only asynchronous step kept  *)
(* separate being the callback of chrome.windows.get; SpecInterleave       *)
(* splits handleNewTab at its await, SpecOvertaken splits the callback of  *)
(* reconcileWithBrowserState at its awaits, SpecRetry runs the callbacks   *)
(* and timers of safeTabMove / safeTabUpdate one by one, SpecLifecycle     *)
(* runs the listeners and timers of ServiceWorkerManager, SpecRestart runs *)
(* initialize against a saved state, SpecMove moves tabs between two       *)
(* windows, and SpecReinit alternates initialize and shutdown.             *)
(***************************************************************************)
EXTENDS Integers, Sequences, FiniteSets, TLC

\* ---------------------------------------------------------------- bounds
MaxWindow == 1
MaxTab == 3
MaxClock == 2
MaxLen == 4
MaxTrackers == 2
MaxPending == 2
MaxSteps == 4
\* the longest array, and the most entries of a registry, drawn as a start
MaxDrawnLen == 3
MaxDrawnEntries == 2
\* how far around the 24 hours the age of a stored state is drawn, in ms
MaxSkew == 2

Windows == 1..MaxWindow
Tabs == 1..MaxTab
Clock == 1..MaxClock

\* "no tab": null / -1 / undefined tab id of the source
NoTab == 0

\* ------------------------------------------------------- variables
VARIABLES
  now,                 \* the reading Date.now() returns
  isInitialized,       \* ExtensionCore.isInitialized
  settings,            \* SettingsManager.settings (flip, reloc)
  trackers,            \* WindowManager.trackers
  skipNextActivation,  \* TabManager.skipNextActivation
  flstState,           \* chrome.storage.local "flstState"
  pendingGet,          \* chrome.windows.get requests whose callback has not run
  calls,               \* chrome.tabs.update / chrome.tabs.move issued by the last handler
  last,                \* which handler ran last, with its arguments and branch
  steps,               \* handler invocations so far
  fnArg,               \* argument list of the functions under test
  fnOut,               \* their results
  awaiting,            \* callbacks and continuations the event loop still has to run
  sw                   \* ServiceWorkerManager: its fields and the timers it has set

vars == <<now, isInitialized, settings, trackers, skipNextActivation, flstState,
          pendingGet, calls, last, steps, fnArg, fnOut, awaiting, sw>>

\* ------------------------------------------------------- sequences
Front(s) == SubSeq(s, 1, Len(s) - 1)

RemoveAt(s, i) == SubSeq(s, 1, i - 1) \o SubSeq(s, i + 1, Len(s))

\* Array.prototype.findIndex on tabId, 1-based; 0 when absent (-1 in the source)
IndexOfTab(tabarr, tabId) ==
  IF \E i \in 1..Len(tabarr) : tabarr[i].tabId = tabId
  THEN CHOOSE i \in 1..Len(tabarr) :
         /\ tabarr[i].tabId = tabId
         /\ \A j \in 1..(i - 1) : tabarr[j].tabId # tabId
  ELSE 0

TabIds(tabarr) == {tabarr[i].tabId : i \in 1..Len(tabarr)}

RECURSIVE SetToSeq(_)
\* ascending enumeration of a set of ids (the order the browser lists them in)
SetToSeq(S) ==
  IF S = {} THEN <<>>
  ELSE LET m == CHOOSE x \in S : \A y \in S : x <= y
       IN <<m>> \o SetToSeq(S \ {m})

\* ------------------------------------------------------- MRU array
createTabEntry(tabId, t) == [tabId |-> tabId, order |-> t]

addTabToMRU(tabarr, tabId, position, t) ==
  IF position = "first"
  THEN <<createTabEntry(tabId, t)>> \o tabarr
  ELSE Append(tabarr, createTabEntry(tabId, t))

removeTabFromMRU(tabarr, tabId) ==
  LET index == IndexOfTab(tabarr, tabId)
  IN IF index # 0 THEN RemoveAt(tabarr, index) ELSE tabarr

updateTabTimestamp(tabarr, tabId, t) ==
  LET index == IndexOfTab(tabarr, tabId)
  IN IF index # 0 THEN [tabarr EXCEPT ![index].order = t] ELSE tabarr

\* one step of the stable sort with comparator (a, b) => b.order - a.order:
\* e goes behind every element whose order is at least its own
InsertDesc(sorted, e) ==
  LET k == Cardinality({i \in 1..Len(sorted) : sorted[i].order >= e.order})
  IN SubSeq(sorted, 1, k) \o <<e>> \o SubSeq(sorted, k + 1, Len(sorted))

RECURSIVE SortDesc(_)
SortDesc(tabarr) ==
  IF tabarr = <<>> THEN <<>>
  ELSE InsertDesc(SortDesc(Front(tabarr)), tabarr[Len(tabarr)])

\* a variant that trusts the array position: the last entry is the newest
getMostRecentTabIdByPosition(tabarr) ==
  IF Len(tabarr) = 0 THEN NoTab ELSE tabarr[Len(tabarr)].tabId

getMostRecentTabId(tabarr) ==
  IF Len(tabarr) = 0 THEN NoTab ELSE SortDesc(tabarr)[1].tabId

\* a variant with the comparator reversed (a.order - b.order): the first
\* entry of lowest order comes out
getMostRecentTabExcludingAscending(tabarr, excludeTabId) ==
  LET filtered == SelectSeq(tabarr, LAMBDA e : e.tabId # excludeTabId)
      lowest == {i \in 1..Len(filtered) :
                   \A j \in 1..Len(filtered) : filtered[i].order <= filtered[j].order}
  IN IF Len(filtered) = 0 THEN NoTab
     ELSE filtered[CHOOSE i \in lowest : \A j \in lowest : i <= j].tabId

getMostRecentTabExcluding(tabarr, excludeTabId) ==
  IF Len(tabarr) = 0 THEN NoTab
  ELSE LET filtered == SelectSeq(tabarr, LAMBDA e : e.tabId # excludeTabId)
       IN IF Len(filtered) = 0 THEN NoTab ELSE SortDesc(filtered)[1].tabId

findTabInMRU(tabarr, tabId) == IndexOfTab(tabarr, tabId)

\* ------------------------------------------------------- tracker registry
\* Array.prototype.find on wid, as an index; 0 when no tracker has that wid
TrackerIndex(trs, windowId) ==
  IF \E i \in 1..Len(trs) : trs[i].wid = windowId
  THEN CHOOSE i \in 1..Len(trs) :
         /\ trs[i].wid = windowId
         /\ \A j \in 1..(i - 1) : trs[j].wid # windowId
  ELSE 0

\* getWindowTracker returns the tracker, or null after asking for a
\* reinitializeWindow; the request is the pendingGet entry added by the caller
getWindowTracker(trs, windowId) == TrackerIndex(trs, windowId)

reinitializeWindow(pend, windowId) == [pend EXCEPT ![windowId] = @ + 1]

\* the requests a lookup leaves behind: one more when it missed
Lookup(pend, trs, windowId) ==
  IF getWindowTracker(trs, windowId) = 0 THEN reinitializeWindow(pend, windowId) ELSE pend

findTab(trs, tabId) ==
  IF \E i \in 1..Len(trs) : IndexOfTab(trs[i].tabarr, tabId) # 0
  THEN LET i == CHOOSE k \in 1..Len(trs) :
                  /\ IndexOfTab(trs[k].tabarr, tabId) # 0
                  /\ \A j \in 1..(k - 1) : IndexOfTab(trs[j].tabarr, tabId) = 0
       IN [tr |-> i, tabloc |-> IndexOfTab(trs[i].tabarr, tabId)]
  ELSE [tr |-> 0, tabloc |-> 0]

\* StorageManager: what saveTrackingState writes, and the cleared key
NoState == [trackingState |-> <<>>, timestamp |-> 0]

saveTrackingState(trs, t) == [trackingState |-> trs, timestamp |-> t]

\* the tabs of a window object split as addWindow does: the non-active ones
\* in order, then the (last) active one
ActiveIds(tabs) == SelectSeq(tabs, LAMBDA tb : tb.active)

selectedIdOf(tabs) ==
  IF Len(ActiveIds(tabs)) = 0 THEN NoTab ELSE ActiveIds(tabs)[Len(ActiveIds(tabs))].id

addWindowEntries(tabs, t) ==
  LET inactive == SelectSeq(tabs, LAMBDA tb : ~tb.active)
      pushed == [i \in 1..Len(inactive) |-> createTabEntry(inactive[i].id, t)]
  IN IF selectedIdOf(tabs) # NoTab
     THEN Append(pushed, createTabEntry(selectedIdOf(tabs), t))
     ELSE pushed

addWindow(trs, windowObj, t) ==
  Append(trs, [tabarr |-> addWindowEntries(windowObj.tabs, t),
               wid |-> windowObj.id,
               moveok |-> (windowObj.type = "normal")])

removeWindow(trs, windowId) ==
  LET index == TrackerIndex(trs, windowId)
  IN IF index # 0 THEN RemoveAt(trs, index) ELSE trs

\* ------------------------------------------------------- browser snapshots
\* what chrome.windows.get / getAll({populate: true}) can answer: window
\* objects with their tabs; a tab is in one window, a window with tabs has
\* exactly one active tab.  Window 1 is a normal window, the others popups.
WindowType(w) == IF w = 1 THEN "normal" ELSE "popup"

WindowObj(w, tabSet, activeId) ==
  [id |-> w, type |-> WindowType(w),
   tabs |-> [i \in 1..Cardinality(tabSet) |->
               [id |-> SetToSeq(tabSet)[i], active |-> (SetToSeq(tabSet)[i] = activeId)]]]

WindowObjs(w) ==
  {WindowObj(w, ts, a) : <<ts, a>> \in
     {p \in (SUBSET Tabs) \X (Tabs \cup {NoTab}) :
        IF p[1] = {} THEN p[2] = NoTab ELSE p[2] \in p[1]}}

\* a placement of the tabs: the window each tab is in (0: closed)
Placements == [Tabs -> Windows \cup {0}]

TabsIn(pl, w) == {tb \in Tabs : pl[tb] = w}

RECURSIVE SnapshotsFrom(_, _)
\* the snapshots of the open windows ws (ascending) under placement pl
SnapshotsFrom(pl, ws) ==
  IF ws = <<>> THEN {<<>>}
  ELSE LET w == ws[1]
           heads == {WindowObj(w, TabsIn(pl, w), a) :
                       a \in (IF TabsIn(pl, w) = {} THEN {NoTab} ELSE TabsIn(pl, w))}
       IN {<<h>> \o rest : h \in heads, rest \in SnapshotsFrom(pl, SubSeq(ws, 2, Len(ws)))}

Snapshots ==
  UNION {SnapshotsFrom(pl, SetToSeq(open)) :
           <<pl, open>> \in {p \in Placements \X (SUBSET Windows) :
                               \A tb \in Tabs : p[1][tb] # 0 => p[1][tb] \in p[2]}}

SnapshotWindowIds(windows) == {windows[i].id : i \in 1..Len(windows)}

SnapshotTabIds(windows, w) ==
  UNION {TabIds([i \in 1..Len(windows[k].tabs) |->
                   [tabId |-> windows[k].tabs[i].id]]) :
           k \in {j \in 1..Len(windows) : windows[j].id = w}}

\* ------------------------------------------------------- reconciliation
IsActiveIn(tabs, tabId) == \E i \in 1..Len(tabs) : tabs[i].id = tabId /\ tabs[i].active

RECURSIVE AddMissingTabs(_, _, _, _)
\* the loop over missingTabs: the active tab is pushed, the others unshifted
AddMissingTabs(tabarr, missingTabs, tabs, t) ==
  IF missingTabs = <<>> THEN tabarr
  ELSE LET tabId == missingTabs[1]
           next == IF IsActiveIn(tabs, tabId)
                   THEN Append(tabarr, createTabEntry(tabId, t))
                   ELSE <<createTabEntry(tabId, t)>> \o tabarr
       IN AddMissingTabs(next, SubSeq(missingTabs, 2, Len(missingTabs)), tabs, t)

RECURSIVE RemoveOrphanedTabs(_, _)
\* the loop over orphanedTabs: findIndex and splice, once per listed id
RemoveOrphanedTabs(tabarr, orphanedTabs) ==
  IF orphanedTabs = <<>> THEN tabarr
  ELSE RemoveOrphanedTabs(removeTabFromMRU(tabarr, orphanedTabs[1]),
                          SubSeq(orphanedTabs, 2, Len(orphanedTabs)))

currentTabIdsOf(windowObj) == [i \in 1..Len(windowObj.tabs) |-> windowObj.tabs[i].id]

trackedTabIdsOf(tabarr) == [i \in 1..Len(tabarr) |-> tabarr[i].tabId]

missingTabsOf(tabarr, windowObj) ==
  SelectSeq(currentTabIdsOf(windowObj), LAMBDA id : id \notin TabIds(tabarr))

\* a variant that lists every orphaned id once (tracked ids kept in a Set)
orphanedTabsOfDistinct(tabarr, windowObj) ==
  LET firsts == SelectSeq([i \in 1..Len(tabarr) |-> i],
                          LAMBDA i : IndexOfTab(tabarr, tabarr[i].tabId) = i)
      ids == [k \in 1..Len(firsts) |-> tabarr[firsts[k]].tabId]
  IN SelectSeq(ids, LAMBDA id : \A i \in 1..Len(windowObj.tabs) : windowObj.tabs[i].id # id)

orphanedTabsOf(tabarr, windowObj) ==
  SelectSeq(trackedTabIdsOf(tabarr),
            LAMBDA id : \A i \in 1..Len(windowObj.tabs) : windowObj.tabs[i].id # id)

\* a variant that builds the array anew from the reported tabs, as addWindow does
reconcileTabarrRebuilt(tabarr, windowObj, t) == addWindowEntries(windowObj.tabs, t)

\* the body of the loop over the reported windows, for one tracked window
reconcileTabarr(tabarr, windowObj, t) ==
  RemoveOrphanedTabs(
    AddMissingTabs(tabarr, missingTabsOf(tabarr, windowObj), windowObj.tabs, t),
    orphanedTabsOf(tabarr, windowObj))

RECURSIVE reconcileWindows(_, _, _)
\* the loop over the reported windows; r carries this.trackers, the change
\* counter and the number of saveTrackingState calls made so far
reconcileWindows(r, windows, t) ==
  IF windows = <<>> THEN r
  ELSE LET windowObj == windows[1]
           rest == SubSeq(windows, 2, Len(windows))
           index == TrackerIndex(r.trackers, windowObj.id)
       IN IF index = 0
          THEN reconcileWindows([trackers |-> addWindow(r.trackers, windowObj, t),
                                 changes |-> r.changes + 1,
                                 writes |-> r.writes + 1], rest, t)
          ELSE LET tabarr == r.trackers[index].tabarr
               IN reconcileWindows(
                    [trackers |-> [r.trackers EXCEPT
                                     ![index].tabarr = reconcileTabarr(tabarr, windowObj, t)],
                     changes |-> r.changes + Len(missingTabsOf(tabarr, windowObj))
                                           + Len(orphanedTabsOf(tabarr, windowObj)),
                     writes |-> r.writes], rest, t)

\* the end of reconcileWithBrowserState: the trackers of windows that are not
\* reported are dropped, and the state is saved if anything was counted
removeOrphanedTrackers(r, windows) ==
  LET kept == SelectSeq(r.trackers, LAMBDA tr : tr.wid \in SnapshotWindowIds(windows))
      changes == r.changes + (Len(r.trackers) - Len(kept))
  IN [trackers |-> kept,
      changes |-> changes,
      writes |-> r.writes + (IF changes > 0 THEN 1 ELSE 0)]

\* reconcileWithBrowserState once getAll has answered with windows:
\* the trackers it leaves, its change counter, its number of writes
reconcileWithBrowserState(trs, windows, t) ==
  removeOrphanedTrackers(
    reconcileWindows([trackers |-> trs, changes |-> 0, writes |-> 0], windows, t),
    windows)

\* the position in windows of the first window without a tracker, 0 if all
\* have one: there the loop stops at "await this.addWindow(window)"
firstUntracked(trs, windows) ==
  LET untracked == {i \in 1..Len(windows) : TrackerIndex(trs, windows[i].id) = 0}
  IN IF untracked = {} THEN 0
     ELSE CHOOSE i \in untracked : \A j \in untracked : i <= j

\* the answer of chrome.windows.getAll: an error, or the windows
QueryResults == {[ok |-> TRUE, windows |-> ws] : ws \in Snapshots}
                  \cup {[ok |-> FALSE, windows |-> <<>>]}

\* reconcileWithBrowserState for any answer q (an error changes nothing)
Reconciled(trs, q, t) ==
  IF q.ok THEN reconcileWithBrowserState(trs, q.windows, t)
  ELSE [trackers |-> trs, changes |-> 0, writes |-> 0]

\* ------------------------------------------------------- handler plumbing
\* SkipActivationReason values; "none" stands for skipNextActivation = null
NoSkip == [reason |-> "none", expectedTabId |-> NoTab]

\* a variant that issues the call and leaves no marker
setFocusUnmarked(tabId, reason) ==
  [skip |-> NoSkip, call |-> [op |-> "update", tabId |-> tabId]]

\* setFocus: the marker it leaves and the chrome.tabs.update it issues
setFocus(tabId, reason) ==
  [skip |-> [reason |-> reason, expectedTabId |-> NoTab],
   call |-> [op |-> "update", tabId |-> tabId]]

\* a setting read as a condition: a missing key is undefined, hence falsy
SettingOn(key) == key \in DOMAIN settings /\ settings[key] # 0

ErrorResult == [ok |-> FALSE, windows |-> <<>>]

NoChange(trs) == [trackers |-> trs, changes |-> 0, writes |-> 0]

\* flstState after a reconciliation that made r.writes writes at reading t
Written(r, t) == IF r.writes > 0 THEN saveTrackingState(r.trackers, t) ELSE flstState

Bounded(trs, pend) ==
  /\ Len(trs) <= MaxTrackers
  /\ \A i \in 1..Len(trs) : Len(trs[i].tabarr) <= MaxLen
  /\ \A w \in Windows : pend[w] <= MaxPending

\* the record kept in last: handler, arguments, branch taken, the answer the
\* browser gave to the handler's getAll (if it asked), and what the
\* reconciliation counted; rep marks a reconciliation that follows one with
\* the same answer, and first is the change counter of that earlier one; top
\* is the tab a flip found most recent (sorted[0]) before it promoted tab;
\* value is the value a setting update message carried
Ran(op, wid, tab, branch, queried, q, r) ==
  [op |-> op, wid |-> wid, tab |-> tab, branch |-> branch,
   queried |-> queried, q |-> q, changes |-> r.changes, writes |-> r.writes,
   rep |-> FALSE, first |-> 0, top |-> NoTab, value |-> 0]

\* ServiceWorkerManager as constructed: not active, no interval timer
\* (reactivationCheckTimer = null), no reconciliation timeout set; listeners
\* is the number of listeners the worker has registered for each browser event
NoServiceWorker ==
  [isActive |-> FALSE, lastActivationTime |-> 0, reactivationCheckTimer |-> FALSE,
   scheduled |-> 0, listeners |-> 0]

\* setupEventListeners: addListener once more for each event
setupEventListeners(s) == [s EXCEPT !.listeners = @ + 1]

\* initializeLifecycleHandlers at reading t: the lifecycle listeners are
\* registered and the interval timer is started
initializeLifecycleHandlers(s, t) ==
  [s EXCEPT !.isActive = TRUE, !.lastActivationTime = t, !.reactivationCheckTimer = TRUE]

\* the service worker of an extension that has, or has not, been initialized
ServiceWorkerOf(initialized, t) ==
  IF initialized THEN initializeLifecycleHandlers(setupEventListeners(NoServiceWorker), t)
  ELSE NoServiceWorker

\* the answers a handler can get: any, when it asks; none to choose otherwise
Answers(asks) == IF asks THEN QueryResults ELSE {ErrorResult}

Init ==
  /\ now = 1
  /\ isInitialized = FALSE
  /\ settings = [flip |-> 1, reloc |-> 1]
  /\ trackers = <<>>
  /\ skipNextActivation = NoSkip
  /\ flstState = NoState
  /\ pendingGet = [w \in Windows |-> 0]
  /\ calls = <<>>
  /\ last = Ran("constructed", 0, NoTab, "", 0, ErrorResult, NoChange(<<>>))
  /\ steps = 0
  /\ fnArg = [tabarr |-> <<>>, excludeTabId |-> NoTab]
  /\ fnOut = NoTab
  /\ awaiting = <<>>
  /\ sw = ServiceWorkerOf(isInitialized, now)

\* Date.now() advances
Tick ==
  /\ now < MaxClock
  /\ now' = now + 1
  /\ UNCHANGED <<isInitialized, settings, trackers, skipNextActivation, flstState,
                 pendingGet, calls, last, steps, fnArg, fnOut, awaiting, sw>>

\* ------------------------------------------------------- initialization
maxAge == 24 * 60 * 60 * 1000

\* stateData.timestamp || 0: a state stored without a timestamp counts as 0
storedTimestamp(st) == IF "timestamp" \in DOMAIN st THEN st.timestamp ELSE 0

\* a variant that also discards a state exactly maxAge old (age >= maxAge)
loadTrackingStateFromAge(st, t) ==
  IF "trackingState" \notin DOMAIN st THEN <<>>
  ELSE IF st = NoState THEN <<>>
  ELSE IF t - storedTimestamp(st) >= maxAge THEN <<>>
  ELSE st.trackingState

\* StorageManager.loadTrackingState at reading t: [] for a missing or
\* malformed state (no trackingState array) and for a stale one
loadTrackingState(st, t) ==
  IF "trackingState" \notin DOMAIN st THEN <<>>
  ELSE IF st = NoState THEN <<>>
  ELSE IF t - storedTimestamp(st) > maxAge THEN <<>>
  ELSE st.trackingState

\* currentTabIds.includes(tabId) where tabId iterates over the entries of
\* tabarr.slice().sort(): an entry object is never === a number
includesEntry(currentTabIds, entry) == FALSE

validateRestoredState(currentWindows, restoredState) ==
  /\ Len(currentWindows) = Len(restoredState)
  /\ \A k \in 1..Len(restoredState) :
       \E j \in 1..Len(currentWindows) :
         /\ currentWindows[j].id = restoredState[k].wid
         /\ \A i \in 1..(j - 1) : currentWindows[i].id # restoredState[k].wid
         /\ Len(currentWindows[j].tabs) = Len(restoredState[k].tabarr)
         /\ \A i \in 1..Len(restoredState[k].tabarr) :
              includesEntry(currentTabIdsOf(currentWindows[j]), restoredState[k].tabarr[i])

RECURSIVE setTrackingFrom(_, _, _)
setTrackingFrom(trs, windows, t) ==
  IF windows = <<>> THEN trs
  ELSE setTrackingFrom(addWindow(trs, windows[1], t), SubSeq(windows, 2, Len(windows)), t)

setTracking(windows, t) == setTrackingFrom(<<>>, windows, t)

\* ExtensionCore.initialize: settings from storage (flip, reloc as stored),
\* WindowManager.initializeTracking against the answer q of getAll
initialize(q, flip, reloc) ==
  /\ ~isInitialized
  /\ settings' = [flip |-> flip, reloc |-> reloc]
  /\ IF ~q.ok
     THEN /\ UNCHANGED <<isInitialized, trackers, flstState, sw>>
          /\ last' = Ran("initialize", 0, NoTab, "rejected", 1, q, NoChange(trackers))
     ELSE LET restored == loadTrackingState(flstState, now)
              useRestored == Len(restored) > 0 /\ validateRestoredState(q.windows, restored)
              built == IF useRestored THEN restored ELSE setTracking(q.windows, now)
          IN /\ trackers' = built
             /\ flstState' = saveTrackingState(built, now)
             /\ isInitialized' = TRUE
             /\ sw' = initializeLifecycleHandlers(setupEventListeners(sw), now)
             /\ last' = Ran("initialize", 0, NoTab,
                            IF useRestored THEN "restored" ELSE "fresh", 1, q,
                            NoChange(built))
  /\ Bounded(trackers', pendingGet)
  /\ calls' = <<>>
  /\ UNCHANGED <<now, skipNextActivation, pendingGet, fnArg, fnOut, awaiting>>

\* SettingsManager.handleSettingUpdateMessage: only keys of settings are set
handleSettingUpdateMessage(option, value) ==
  /\ isInitialized
  /\ settings' = IF option \in DOMAIN settings
                 THEN [settings EXCEPT ![option] = value]
                 ELSE settings
  /\ last' = [Ran("settingUpdate", 0, NoTab, option, 0, ErrorResult, NoChange(trackers))
                EXCEPT !.value = value]
  /\ calls' = <<>>
  /\ UNCHANGED <<now, isInitialized, trackers, skipNextActivation, flstState,
                 pendingGet, fnArg, fnOut, awaiting, sw>>

\* ------------------------------------------------------- window handlers
\* ExtensionCore.handleWindowCreated: asks chrome.windows.get for the window
handleWindowCreated(w) ==
  /\ isInitialized
  /\ pendingGet' = [pendingGet EXCEPT ![w] = @ + 1]
  /\ Bounded(trackers, pendingGet')
  /\ last' = Ran("windowCreated", w, NoTab, "", 0, ErrorResult, NoChange(trackers))
  /\ calls' = <<>>
  /\ UNCHANGED <<now, isInitialized, settings, trackers, skipNextActivation,
                 flstState, fnArg, fnOut, awaiting, sw>>

\* the callback of chrome.windows.get (handleWindowCreated, reinitializeWindow):
\* lastError, or the populated window, which addWindow registers and saves
windowsGetCallback(w, ok, windowObj) ==
  /\ pendingGet[w] > 0
  /\ pendingGet' = [pendingGet EXCEPT ![w] = @ - 1]
  /\ IF ok
     THEN /\ trackers' = addWindow(trackers, windowObj, now)
          /\ flstState' = saveTrackingState(trackers', now)
     ELSE UNCHANGED <<trackers, flstState>>
  /\ Bounded(trackers', pendingGet')
  /\ last' = Ran("windowsGet", w, NoTab, IF ok THEN "added" ELSE "lastError",
                 0, ErrorResult, NoChange(trackers))
  /\ calls' = <<>>
  /\ UNCHANGED <<now, isInitialized, settings, skipNextActivation, fnArg, fnOut, awaiting, sw>>

\* ExtensionCore.handleWindowRemoved -> WindowManager.removeWindow
handleWindowRemoved(w) ==
  /\ isInitialized
  /\ trackers' = removeWindow(trackers, w)
  /\ flstState' = IF TrackerIndex(trackers, w) # 0
                  THEN saveTrackingState(trackers', now)
                  ELSE flstState
  /\ last' = Ran("windowRemoved", w, NoTab,
                 IF TrackerIndex(trackers, w) # 0 THEN "removed" ELSE "unknown",
                 0, ErrorResult, NoChange(trackers))
  /\ calls' = <<>>
  /\ UNCHANGED <<now, isInitialized, settings, skipNextActivation, pendingGet,
                 fnArg, fnOut, awaiting, sw>>

\* the reconciliation callback of ServiceWorkerManager (interval timer,
\* reactivation): WindowManager.reconcileWithBrowserState against answer q
reconcile(q) ==
  /\ isInitialized
  /\ \E r \in {Reconciled(trackers, q, now)} :
        /\ trackers' = r.trackers
        /\ flstState' = Written(r, now)
        /\ last' = [Ran("reconcile", 0, NoTab, IF q.ok THEN "done" ELSE "lastError",
                        1, q, r)
                      EXCEPT !.rep = (last.op = "reconcile" /\ last.q = q /\ q.ok),
                             !.first = IF last.op = "reconcile" /\ last.q = q /\ q.ok
                                       THEN last.changes ELSE 0]
  /\ Bounded(trackers', pendingGet)
  /\ calls' = <<>>
  /\ UNCHANGED <<now, isInitialized, settings, skipNextActivation, pendingGet,
                 fnArg, fnOut, awaiting, sw>>

\* one turn of the getAll callback of reconcileWithBrowserState, from window
\* number done + 1 on, with the counters r it has so far: it runs to the first
\* window without a tracker, calls addWindow (which pushes the tracker and
\* starts the write) and stops at the await; with no such window it runs to
\* the end.  others are the continuations of other callbacks.
reconcileTurn(windows, done, r, others) ==
  LET rest == SubSeq(windows, done + 1, Len(windows))
      k == firstUntracked(r.trackers, rest)
  IN IF k # 0
     THEN \E r1 \in {reconcileWindows(r, SubSeq(rest, 1, k), now)} :
            /\ trackers' = r1.trackers
            /\ flstState' = saveTrackingState(r1.trackers, now)
            /\ awaiting' = Append(others, [kind |-> "reconcile", windows |-> windows,
                                           done |-> done + k, changes |-> r1.changes,
                                           writes |-> r1.writes])
            /\ last' = Ran("reconcile", 0, NoTab, "await", 1,
                           [ok |-> TRUE, windows |-> windows], r1)
     ELSE \E r1 \in {removeOrphanedTrackers(reconcileWindows(r, rest, now), windows)} :
            /\ trackers' = r1.trackers
            /\ flstState' = Written(r1, now)
            /\ awaiting' = others
            /\ last' = Ran("reconcile", 0, NoTab, "done", 1,
                           [ok |-> TRUE, windows |-> windows], r1)

\* the getAll callback of a reconciliation as the event loop runs it: its
\* first turn
reconcileAwait(q) ==
  /\ isInitialized
  /\ q.ok
  /\ reconcileTurn(q.windows, 0, NoChange(trackers), awaiting)
  /\ Bounded(trackers', pendingGet)
  /\ calls' = <<>>
  /\ UNCHANGED <<now, isInitialized, settings, skipNextActivation, pendingGet,
                 fnArg, fnOut, sw>>

\* the rest of the callback once the write addWindow awaited is done; it
\* goes on with this.trackers as it is by then
reconcileResume(k) ==
  /\ k \in 1..Len(awaiting)
  /\ awaiting[k].kind = "reconcile"
  /\ reconcileTurn(awaiting[k].windows, awaiting[k].done,
                   [trackers |-> trackers, changes |-> awaiting[k].changes,
                    writes |-> awaiting[k].writes],
                   RemoveAt(awaiting, k))
  /\ Bounded(trackers', pendingGet)
  /\ calls' = <<>>
  /\ UNCHANGED <<now, isInitialized, settings, skipNextActivation, pendingGet,
                 fnArg, fnOut, sw>>

\* ------------------------------------------------------- tab handlers
\* the lookup-miss recovery shared by handleNewTab, handleTabActivation and
\* handleTabFlip: getWindowTracker, and on a miss reconcileWithBrowserState
\* followed by a second getWindowTracker.  Gives the trackers, the index of
\* the tracker found (0: still missing), the windows.get requests left
\* behind and the reconciliation's counters.
Resynced(w, q) ==
  IF getWindowTracker(trackers, w) # 0
  THEN [r |-> NoChange(trackers), index |-> getWindowTracker(trackers, w),
        pend |-> pendingGet, queried |-> 0]
  ELSE LET looked(r) ==
             [r |-> r, index |-> getWindowTracker(r.trackers, w),
              pend |-> Lookup(reinitializeWindow(pendingGet, w), r.trackers, w),
              queried |-> 1]
       IN looked(Reconciled(trackers, q, now))

\* relocateTabToFarRight: chrome.tabs.move is called when the browser
\* reports the tab somewhere else than at the far right
relocateTabToFarRight(tabId, atFarRight) ==
  IF atFarRight THEN <<>> ELSE <<[op |-> "move", tabId |-> tabId]>>

\* handleNewTab but for what it leaves to the event loop
handleNewTabBody(w, t, q, atFarRight) ==
  /\ isInitialized
  /\ \E s \in {Resynced(w, q)} :
        IF s.index = 0
        THEN /\ trackers' = s.r.trackers
             /\ flstState' = Written(s.r, now)
             /\ pendingGet' = s.pend
             /\ calls' = <<>>
             /\ last' = Ran("created", w, t, "nowindow", s.queried, q, s.r)
             /\ UNCHANGED skipNextActivation
        ELSE LET tracker == s.r.trackers[s.index]
                 moved == IF SettingOn("reloc") /\ tracker.moveok
                          THEN relocateTabToFarRight(t, atFarRight)
                          ELSE <<>>
                 existingIndex == IndexOfTab(tracker.tabarr, t)
                 select == existingIndex = 0 /\ SettingOn("ntsel")
                 tabarr == IF existingIndex # 0 THEN tracker.tabarr
                           ELSE IF SettingOn("ntsel")
                                THEN addTabToMRU(tracker.tabarr, t, "last", now)
                                ELSE addTabToMRU(tracker.tabarr, t, "first", now)
             IN /\ trackers' = [s.r.trackers EXCEPT ![s.index].tabarr = tabarr]
                /\ flstState' = saveTrackingState(trackers', now)
                /\ pendingGet' = s.pend
                /\ skipNextActivation' =
                     IF select THEN setFocus(t, "NewTab").skip ELSE skipNextActivation
                /\ calls' = moved \o (IF select THEN <<setFocus(t, "NewTab").call>> ELSE <<>>)
                /\ last' = Ran("created", w, t,
                               IF existingIndex # 0 THEN "exists"
                               ELSE IF select THEN "last" ELSE "first",
                               s.queried, q, s.r)
  /\ Bounded(trackers', pendingGet')
  /\ UNCHANGED <<now, isInitialized, settings, fnArg, fnOut>>

\* handleNewTab run as one turn, its awaits answered at once
handleNewTab(w, t, q, atFarRight) ==
  /\ handleNewTabBody(w, t, q, atFarRight)
  /\ UNCHANGED <<awaiting, sw>>

\* handleNewTab as the event loop runs it when the window is tracked and the
\* tab is to be relocated: the turn ends at "await relocateTabToFarRight",
\* whose chrome.tabs.get / query / move callbacks come later; nothing has been
\* written yet, and the listener has returned to the browser
handleNewTabAwait(w, t) ==
  /\ isInitialized
  /\ getWindowTracker(trackers, w) # 0
  /\ SettingOn("reloc")
  /\ trackers[getWindowTracker(trackers, w)].moveok
  /\ awaiting' = Append(awaiting, [kind |-> "handleNewTab", wid |-> w, tabId |-> t])
  /\ last' = Ran("created", w, t, "await", 0, ErrorResult, NoChange(trackers))
  /\ calls' = <<>>
  /\ UNCHANGED <<now, isInitialized, settings, trackers, skipNextActivation,
                 flstState, pendingGet, fnArg, fnOut, sw>>

\* the rest of handleNewTab, once relocateTabToFarRight has resolved; the
\* tracker is the one looked up before the await
handleNewTabResume(k, atFarRight) ==
  /\ k \in 1..Len(awaiting)
  /\ awaiting[k].kind = "handleNewTab"
  /\ getWindowTracker(trackers, awaiting[k].wid) # 0
  /\ handleNewTabBody(awaiting[k].wid, awaiting[k].tabId, ErrorResult, atFarRight)
  /\ awaiting' = RemoveAt(awaiting, k)
  /\ UNCHANGED sw

handleTabClose(t) ==
  /\ isInitialized
  /\ LET info == findTab(trackers, t)
     IN IF info.tr = 0
        THEN /\ last' = Ran("closed", 0, t, "notfound", 0, ErrorResult, NoChange(trackers))
             /\ calls' = <<>>
             /\ UNCHANGED <<trackers, flstState, skipNextActivation>>
        ELSE LET tabarr == trackers[info.tr].tabarr
                 nextTabId == IF Len(tabarr) > 1 /\ SettingOn("flip")
                              THEN getMostRecentTabExcluding(tabarr, t)
                              ELSE NoTab
                 \* skipNextActivation = {CLOSE_TAB, expectedTabId: nextTabId}
                 \* is assigned first, then setFocus assigns it again
                 focus == setFocus(nextTabId, "CloseTab")
             IN /\ skipNextActivation' =
                     IF nextTabId # NoTab THEN focus.skip ELSE skipNextActivation
                /\ calls' = IF nextTabId # NoTab THEN <<focus.call>> ELSE <<>>
                /\ trackers' = [trackers EXCEPT ![info.tr].tabarr = RemoveAt(tabarr, info.tabloc)]
                /\ flstState' = saveTrackingState(trackers', now)
                /\ last' = Ran("closed", trackers[info.tr].wid, t,
                               IF nextTabId # NoTab THEN "select" ELSE "leave",
                               0, ErrorResult, NoChange(trackers))
  /\ UNCHANGED <<now, isInitialized, settings, pendingGet, fnArg, fnOut, awaiting, sw>>

\* the part of handleTabActivation behind the skip check: locate the window
\* and the tab (reconciling on a miss), then bump the tab unless it already
\* is the most recent one
activateTab(w, t, q, branch0) ==
  \E s \in {Resynced(w, q)} :
    IF s.index = 0
    THEN /\ trackers' = s.r.trackers
         /\ flstState' = Written(s.r, now)
         /\ pendingGet' = s.pend
         /\ last' = Ran("activated", w, t, "nowindow", s.queried, q, s.r)
    ELSE \E tabarr0 \in {s.r.trackers[s.index].tabarr} :
         \E missing \in {findTabInMRU(tabarr0, t) = 0} :
         \* the second reconciliation; the tracker object stays the first
         \* one of its window, or leaves the registry with its array as it was
         \E r2 \in {IF missing THEN Reconciled(s.r.trackers, q, now)
                    ELSE NoChange(s.r.trackers)} :
         \E index2 \in {getWindowTracker(r2.trackers, w)} :
         \E tabarr \in {IF index2 # 0 THEN r2.trackers[index2].tabarr ELSE tabarr0} :
         \E total \in {[trackers |-> r2.trackers,
                        changes |-> s.r.changes + r2.changes,
                        writes |-> s.r.writes + r2.writes]} :
         \E queried \in {s.queried + (IF missing THEN 1 ELSE 0)} :
           /\ pendingGet' = s.pend
           /\ IF findTabInMRU(tabarr, t) = 0
              THEN /\ trackers' = r2.trackers
                   /\ flstState' = Written(total, now)
                   /\ last' = Ran("activated", w, t, "notab", queried, q, total)
              ELSE IF getMostRecentTabId(tabarr) = t
              THEN /\ trackers' = r2.trackers
                   /\ flstState' = Written(total, now)
                   /\ last' = Ran("activated", w, t, branch0 \o "already", queried, q, total)
              ELSE /\ trackers' = [r2.trackers EXCEPT
                                     ![index2].tabarr = updateTabTimestamp(tabarr, t, now)]
                   /\ flstState' = saveTrackingState(trackers', now)
                   /\ last' = Ran("activated", w, t, branch0 \o "touch", queried, q, total)

handleTabActivation(w, t, q) ==
  /\ isInitialized
  /\ calls' = IF /\ skipNextActivation.reason = "CloseTab"
                 /\ skipNextActivation.expectedTabId # NoTab
                 /\ skipNextActivation.expectedTabId # t
              THEN <<setFocus(skipNextActivation.expectedTabId, "CloseTab-Correction").call>>
              ELSE <<>>
  /\ IF skipNextActivation # NoSkip
     THEN IF skipNextActivation.reason = "CloseTab" /\ skipNextActivation.expectedTabId # NoTab
          THEN IF skipNextActivation.expectedTabId = t
               THEN /\ skipNextActivation' = NoSkip
                    /\ activateTab(w, t, q, "expected-")
               ELSE /\ skipNextActivation' =
                         setFocus(skipNextActivation.expectedTabId, "CloseTab-Correction").skip
                    /\ last' = Ran("activated", w, t, "correct", 0, ErrorResult, NoChange(trackers))
                    /\ UNCHANGED <<trackers, flstState, pendingGet>>
          ELSE /\ skipNextActivation' = NoSkip
               /\ last' = Ran("activated", w, t, "skip", 0, ErrorResult, NoChange(trackers))
               /\ UNCHANGED <<trackers, flstState, pendingGet>>
     ELSE /\ UNCHANGED skipNextActivation
          /\ activateTab(w, t, q, "")
  /\ Bounded(trackers', pendingGet')
  /\ UNCHANGED <<now, isInitialized, settings, fnArg, fnOut, awaiting, sw>>

\* a variant that stamps the rewritten entry as createTabEntry would
handleTabReplacementRestamped(newId, oldId) ==
  /\ isInitialized
  /\ LET info == findTab(trackers, oldId)
     IN /\ trackers' = IF info.tr # 0
                       THEN [trackers EXCEPT
                               ![info.tr].tabarr[info.tabloc] = createTabEntry(newId, now)]
                       ELSE trackers
        /\ last' = Ran("replaced", 0, newId, IF info.tr # 0 THEN "rewritten" ELSE "notfound",
                       0, ErrorResult, NoChange(trackers))
  /\ calls' = <<>>
  /\ UNCHANGED <<now, isInitialized, settings, skipNextActivation, flstState,
                 pendingGet, fnArg, fnOut, awaiting, sw>>

handleTabReplacement(newId, oldId) ==
  /\ isInitialized
  /\ LET info == findTab(trackers, oldId)
     IN /\ trackers' = IF info.tr # 0
                       THEN [trackers EXCEPT ![info.tr].tabarr[info.tabloc].tabId = newId]
                       ELSE trackers
        /\ last' = Ran("replaced", 0, newId, IF info.tr # 0 THEN "rewritten" ELSE "notfound",
                       0, ErrorResult, NoChange(trackers))
  /\ calls' = <<>>
  /\ UNCHANGED <<now, isInitialized, settings, skipNextActivation, flstState,
                 pendingGet, fnArg, fnOut, awaiting, sw>>

handleTabAttach(t, newWindowId) ==
  /\ isInitialized
  /\ LET index == getWindowTracker(trackers, newWindowId)
     IN /\ pendingGet' = Lookup(pendingGet, trackers, newWindowId)
        /\ trackers' = IF index # 0
                       THEN [trackers EXCEPT
                               ![index].tabarr = addTabToMRU(@, t, "last", now)]
                       ELSE trackers
        /\ skipNextActivation' = IF index # 0
                                 THEN [reason |-> "Attach", expectedTabId |-> NoTab]
                                 ELSE skipNextActivation
        /\ last' = Ran("attached", newWindowId, t, IF index # 0 THEN "added" ELSE "nowindow",
                       0, ErrorResult, NoChange(trackers))
  /\ Bounded(trackers', pendingGet')
  /\ calls' = <<>>
  /\ UNCHANGED <<now, isInitialized, settings, flstState, fnArg, fnOut, awaiting, sw>>

handleTabDetach(t, oldWindowId) ==
  /\ isInitialized
  /\ LET index == getWindowTracker(trackers, oldWindowId)
     IN /\ pendingGet' = Lookup(pendingGet, trackers, oldWindowId)
        /\ IF index = 0
           THEN /\ last' = Ran("detached", oldWindowId, t, "nowindow", 0, ErrorResult,
                               NoChange(trackers))
                /\ calls' = <<>>
                /\ UNCHANGED <<trackers, skipNextActivation>>
           ELSE LET tabarr == removeTabFromMRU(trackers[index].tabarr, t)
                    lastTabId == getMostRecentTabId(tabarr)
                    focus == setFocus(lastTabId, "Detach")
                IN /\ trackers' = [trackers EXCEPT ![index].tabarr = tabarr]
                   /\ skipNextActivation' =
                        IF lastTabId # NoTab THEN focus.skip ELSE skipNextActivation
                   /\ calls' = IF lastTabId # NoTab THEN <<focus.call>> ELSE <<>>
                   /\ last' = Ran("detached", oldWindowId, t,
                                  IF lastTabId # NoTab THEN "select" ELSE "empty",
                                  0, ErrorResult, NoChange(trackers))
  /\ Bounded(trackers', pendingGet')
  /\ UNCHANGED <<now, isInitialized, settings, flstState, fnArg, fnOut, awaiting, sw>>

handleTabFlip(w, q) ==
  /\ isInitialized
  /\ IF ~SettingOn("flip")
     THEN /\ last' = Ran("flip", w, NoTab, "off", 0, ErrorResult, NoChange(trackers))
          /\ calls' = <<>>
          /\ UNCHANGED <<trackers, flstState, pendingGet, skipNextActivation>>
     ELSE \E s \in {Resynced(w, q)} :
             /\ pendingGet' = s.pend
             /\ flstState' = Written(s.r, now)
             /\ IF s.index = 0 \/ Len(s.r.trackers[s.index].tabarr) < 2
                THEN /\ trackers' = s.r.trackers
                     /\ calls' = <<>>
                     /\ last' = Ran("flip", w, NoTab,
                                    IF s.index = 0 THEN "nowindow" ELSE "few",
                                    s.queried, q, s.r)
                     /\ UNCHANGED skipNextActivation
                ELSE LET tabarr == s.r.trackers[s.index].tabarr
                         previousTabId == SortDesc(tabarr)[2].tabId
                         focus == setFocus(previousTabId, "TabFlip")
                     IN /\ trackers' = [s.r.trackers EXCEPT ![s.index].tabarr =
                                          updateTabTimestamp(tabarr, previousTabId, now)]
                        /\ skipNextActivation' = focus.skip
                        /\ calls' = <<focus.call>>
                        /\ last' = [Ran("flip", w, previousTabId, "flipped", s.queried, q, s.r)
                                      EXCEPT !.top = SortDesc(tabarr)[1].tabId]
  /\ Bounded(trackers', pendingGet')
  /\ UNCHANGED <<now, isInitialized, settings, fnArg, fnOut, awaiting, sw>>

\* ------------------------------------------------------- service worker
\* the elapsed time above which handleReactivation asks for a reconciliation
reactivationThreshold == 5000

\* handleReactivation at reading t: the worker is active, the interval timer
\* is restarted, and a reconciliation is set to run (setTimeout) when more
\* than the threshold has passed since lastActivationTime
handleReactivation(s, t) ==
  [isActive |-> TRUE,
   lastActivationTime |-> t,
   reactivationCheckTimer |-> TRUE,
   scheduled |-> IF t - s.lastActivationTime > reactivationThreshold
                 THEN s.scheduled + 1 ELSE s.scheduled,
   listeners |-> s.listeners]

\* the onMessage listener for a ping at reading t: lastActivationTime is set
\* first, and the elapsed time is computed from it afterwards
pingListener(s, t) ==
  LET alive == [s EXCEPT !.lastActivationTime = t, !.isActive = TRUE]
      timeSinceLastActivation == t - alive.lastActivationTime
  IN IF timeSinceLastActivation > reactivationThreshold
     THEN handleReactivation(alive, t)
     ELSE alive

\* the listeners that call handleReactivation
LifecycleEvents == {"onStartup", "onSuspendCanceled", "onInstalled:install",
                    "onInstalled:update"}

\* what a listener of ServiceWorkerManager leaves alone
LifecycleFrame(op, branch) ==
  /\ last' = Ran(op, 0, NoTab, branch, 0, ErrorResult, NoChange(trackers))
  /\ sw'.scheduled <= MaxPending
  /\ calls' = <<>>
  /\ UNCHANGED <<now, isInitialized, settings, trackers, skipNextActivation,
                 pendingGet, steps, fnArg, fnOut, awaiting>>

\* chrome.runtime.onStartup / onSuspendCanceled / onInstalled
lifecycleEvent(event) ==
  /\ sw' = handleReactivation(sw, now)
  /\ flstState' = IF event = "onInstalled:install" THEN NoState ELSE flstState
  /\ LifecycleFrame(event, IF sw'.scheduled > sw.scheduled THEN "dormant" ELSE "alive")

\* chrome.runtime.onSuspend
onSuspend ==
  /\ sw' = [sw EXCEPT !.isActive = FALSE, !.reactivationCheckTimer = FALSE]
  /\ UNCHANGED flstState
  /\ LifecycleFrame("onSuspend", "")

\* chrome.runtime.onMessage with a message of type flst-ping
onPing ==
  /\ sw' = pingListener(sw, now)
  /\ UNCHANGED flstState
  /\ LifecycleFrame("onPing", IF sw'.scheduled > sw.scheduled THEN "dormant" ELSE "alive")

\* one tick of the interval timer: the ping is sent; answered, the ping
\* listener has run and lastActivationTime is set again; with lastError the
\* catch block calls handleReactivation
intervalTick(answered) ==
  /\ sw.reactivationCheckTimer
  /\ sw' = IF answered
           THEN [pingListener(sw, now) EXCEPT !.lastActivationTime = now,
                                              !.isActive = TRUE]
           ELSE handleReactivation(sw, now)
  /\ UNCHANGED flstState
  /\ LifecycleFrame("intervalTick",
                    IF sw'.scheduled > sw.scheduled THEN "dormant"
                    ELSE IF answered THEN "pong" ELSE "alive")

\* the setTimeout callback of handleReactivation: reconciliationCallback,
\* that is reconcileWithBrowserState, against answer q
reconciliationTimeout(q) ==
  /\ sw.scheduled > 0
  /\ sw' = [sw EXCEPT !.scheduled = @ - 1]
  /\ \E r \in {Reconciled(trackers, q, now)} :
        /\ trackers' = r.trackers
        /\ flstState' = Written(r, now)
        /\ last' = Ran("reconciliationTimeout", 0, NoTab,
                       IF q.ok THEN "done" ELSE "lastError", 1, q, r)
  /\ Bounded(trackers', pendingGet)
  /\ calls' = <<>>
  /\ UNCHANGED <<now, isInitialized, settings, skipNextActivation, pendingGet,
                 steps, fnArg, fnOut, awaiting>>

\* ExtensionCore.shutdown: clearTracking, then isInitialized = false
shutdown ==
  /\ isInitialized
  /\ trackers' = <<>>
  /\ flstState' = NoState
  /\ isInitialized' = FALSE
  /\ last' = Ran("shutdown", 0, NoTab, "", 0, ErrorResult, NoChange(<<>>))
  /\ calls' = <<>>
  /\ UNCHANGED <<now, settings, skipNextActivation, pendingGet, steps, fnArg,
                 fnOut, awaiting, sw>>

\* the readings of Date.now() the lifecycle is explored at, and time passing
\* from one to a later one
Readings == {k * reactivationThreshold + j : k \in 0..MaxClock, j \in 0..MaxClock}

Elapse(t) ==
  /\ t \in Readings
  /\ t > now
  /\ now' = t
  /\ UNCHANGED <<isInitialized, settings, trackers, skipNextActivation, flstState,
                 pendingGet, calls, last, steps, fnArg, fnOut, awaiting, sw>>

\* ------------------------------------------------------- safe tab calls
maxRetries == 3

\* chrome.runtime.lastError in the callback of chrome.tabs.move / update:
\* unset, the message Chrome gives while a tab is dragged, another message,
\* or an error object without message
NoError == "none"

DraggingMessage == "Tabs cannot be edited right now (user may be dragging a tab)."

LastErrors == {NoError, DraggingMessage, "No tab with id", "undefined"}

\* errorMsg?.includes("user may be dragging")
includesDragging(errorMsg) == errorMsg = DraggingMessage

\* a variant that retries after any error
retryOnAnyError(errorMsg, retryCount) == retryCount < maxRetries

\* the condition under which the callback schedules another attempt
shouldRetry(errorMsg, retryCount) == includesDragging(errorMsg) /\ retryCount < maxRetries

\* safeTabMove / safeTabUpdate called with retryCount 0 on fnArg's tab: the
\* chrome.tabs call is issued and its callback is left to the event loop
safeTabCall ==
  /\ steps = 0
  /\ steps' = 1
  /\ calls' = <<[op |-> fnArg.op, tabId |-> fnArg.tabId]>>
  /\ awaiting' = <<[kind |-> "callback", op |-> fnArg.op, tabId |-> fnArg.tabId,
                    retryCount |-> 0]>>
  /\ last' = Ran("safeTabCall", 0, fnArg.tabId, fnArg.op, 0, ErrorResult, NoChange(<<>>))
  /\ UNCHANGED <<now, isInitialized, settings, trackers, skipNextActivation,
                 flstState, pendingGet, fnArg, fnOut, sw>>

\* the callback of chrome.tabs.move / chrome.tabs.update runs with lastError
\* errorMsg: it sets the retry timer, or reports failure or success
tabsCallback(k, errorMsg) ==
  /\ k \in 1..Len(awaiting)
  /\ awaiting[k].kind = "callback"
  /\ IF errorMsg # NoError /\ shouldRetry(errorMsg, awaiting[k].retryCount)
     THEN /\ awaiting' = [awaiting EXCEPT ![k].kind = "timer"]
          /\ UNCHANGED fnOut
     ELSE /\ awaiting' = RemoveAt(awaiting, k)
          /\ fnOut' = IF errorMsg = NoError THEN "success" ELSE "failed"
  /\ last' = Ran("tabsCallback", 0, awaiting[k].tabId, errorMsg, 0, ErrorResult,
                 NoChange(<<>>))
  /\ UNCHANGED <<now, isInitialized, settings, trackers, skipNextActivation,
                 flstState, pendingGet, calls, steps, fnArg, sw>>

\* the setTimeout(retryDelay) callback: the same call again, retryCount + 1
retryTimer(k) ==
  /\ k \in 1..Len(awaiting)
  /\ awaiting[k].kind = "timer"
  /\ calls' = Append(calls, [op |-> awaiting[k].op, tabId |-> awaiting[k].tabId])
  /\ awaiting' = [awaiting EXCEPT ![k].kind = "callback", ![k].retryCount = @ + 1]
  /\ last' = Ran("retryTimer", 0, awaiting[k].tabId, awaiting[k].op, 0, ErrorResult,
                 NoChange(<<>>))
  /\ UNCHANGED <<now, isInitialized, settings, trackers, skipNextActivation,
                 flstState, pendingGet, steps, fnArg, fnOut, sw>>

\* ------------------------------------------------------- specification
\* whether the handler for window w (and tab t) will query the browser
MissesWindow(w) == getWindowTracker(trackers, w) = 0

MissesTab(w, t) ==
  \/ MissesWindow(w)
  \/ findTabInMRU(trackers[getWindowTracker(trackers, w)].tabarr, t) = 0

\* one more handler runs, while the run is short enough to explore
Counted == steps < MaxSteps /\ steps' = steps + 1

\* the callbacks the browser can run: every handler, each for every argument;
\* initialize runs on a fresh install, where storage holds no settings
Next ==
  \/ Tick
  \/ \E q \in QueryResults : Counted /\ initialize(q, 1, 1)
  \/ \E option \in {"flip", "reloc", "ntsel"}, value \in {0, 1} :
       Counted /\ handleSettingUpdateMessage(option, value)
  \/ \E w \in Windows : Counted /\ handleWindowCreated(w)
  \/ \E w \in Windows : Counted /\ windowsGetCallback(w, FALSE, WindowObj(w, {}, NoTab))
  \/ \E w \in Windows : \E windowObj \in WindowObjs(w) :
       Counted /\ windowsGetCallback(w, TRUE, windowObj)
  \/ \E w \in Windows : Counted /\ handleWindowRemoved(w)
  \/ \E q \in QueryResults : Counted /\ reconcile(q)
  \/ \E w \in Windows, t \in Tabs : \E q \in Answers(MissesWindow(w)) :
       \E atFarRight \in BOOLEAN : Counted /\ handleNewTab(w, t, q, atFarRight)
  \/ \E t \in Tabs : Counted /\ handleTabClose(t)
  \/ \E w \in Windows, t \in Tabs : \E q \in Answers(MissesTab(w, t)) :
       Counted /\ handleTabActivation(w, t, q)
  \/ \E newId \in Tabs, oldId \in Tabs :
       newId # oldId /\ Counted /\ handleTabReplacement(newId, oldId)
  \/ \E t \in Tabs, w \in Windows : Counted /\ handleTabAttach(t, w)
  \/ \E t \in Tabs, w \in Windows : Counted /\ handleTabDetach(t, w)
  \/ \E w \in Windows : \E q \in Answers(MissesWindow(w)) : Counted /\ handleTabFlip(w, q)

Spec == Init /\ [][Next]_vars

\* ------------------------------------------------------- drawn starts
RECURSIVE TabArrays(_, _)
\* the MRU arrays of at most n entries, with orders among the readings orders
TabArrays(n, orders) ==
  IF n = 0 THEN {<<>>}
  ELSE LET shorter == TabArrays(n - 1, orders)
       IN shorter \cup {Append(a, createTabEntry(tabId, o)) :
                          a \in shorter, tabId \in Tabs, o \in orders}

\* a tracker as addWindow builds it, holding the array tabarr
Tracker(w, tabarr) == [tabarr |-> tabarr, wid |-> w, moveok |-> (WindowType(w) = "normal")]

\* getMostRecentTabExcluding applied to arguments drawn at the start
InitMRU ==
  /\ now = 1
  /\ isInitialized = FALSE
  /\ settings = [flip |-> 1, reloc |-> 1]
  /\ trackers = <<>>
  /\ skipNextActivation = NoSkip
  /\ flstState = NoState
  /\ pendingGet = [w \in Windows |-> 0]
  /\ calls = <<>>
  /\ last = Ran("constructed", 0, NoTab, "", 0, ErrorResult, NoChange(<<>>))
  /\ steps = 0
  /\ fnArg \in {[tabarr |-> a, excludeTabId |-> e] :
                  a \in TabArrays(MaxDrawnLen, Clock), e \in Tabs}
  /\ fnOut = NoTab
  /\ awaiting = <<>>
  /\ sw = ServiceWorkerOf(isInitialized, now)

callGetMostRecentTabExcluding ==
  /\ steps = 0
  /\ steps' = 1
  /\ fnOut' = getMostRecentTabExcluding(fnArg.tabarr, fnArg.excludeTabId)
  /\ last' = Ran("getMostRecentTabExcluding", 0, fnArg.excludeTabId, "", 0,
                 ErrorResult, NoChange(<<>>))
  /\ UNCHANGED <<now, isInitialized, settings, trackers, skipNextActivation,
                 flstState, pendingGet, calls, fnArg, awaiting, sw>>

SpecMRU == InitMRU /\ [][callGetMostRecentTabExcluding]_vars

\* a running extension that tracks one window, whose array, clock reading and
\* pending skip are drawn at the start; the registry is the one last saved
InitActivation ==
  /\ now \in Clock
  /\ isInitialized = TRUE
  /\ settings = [flip |-> 1, reloc |-> 1]
  /\ trackers \in {<<Tracker(w, a)>> : w \in Windows, a \in TabArrays(MaxDrawnLen, 1..now)}
  /\ skipNextActivation \in {NoSkip, [reason |-> "TabFlip", expectedTabId |-> NoTab]}
  /\ flstState = saveTrackingState(trackers, now)
  /\ pendingGet = [w \in Windows |-> 0]
  /\ calls = <<>>
  /\ last = Ran("constructed", 0, NoTab, "", 0, ErrorResult, NoChange(<<>>))
  /\ steps = 0
  /\ fnArg = [tabarr |-> <<>>, excludeTabId |-> NoTab]
  /\ fnOut = NoTab
  /\ awaiting = <<>>
  /\ sw = ServiceWorkerOf(isInitialized, now)

\* one onActivated event for a tab the reported window tracks
NextActivation ==
  \E w \in Windows, t \in Tabs :
    /\ steps = 0
    /\ steps' = 1
    /\ ~MissesTab(w, t)
    /\ handleTabActivation(w, t, ErrorResult)

SpecActivation == InitActivation /\ [][NextActivation]_vars

\* the registries of at most two trackers (of one window or of two) that hold
\* at most n entries between them
Registries(n) ==
  {<<>>}
    \cup {<<Tracker(w, a)>> : w \in Windows, a \in TabArrays(n, {1})}
    \cup {<<Tracker(w1, a1), Tracker(w2, a2)>> :
            <<w1, a1, w2, a2>> \in
              {p \in Windows \X TabArrays(n, {1}) \X Windows \X TabArrays(n, {1}) :
                 Len(p[2]) + Len(p[4]) <= n}}

\* a running extension whose registry and clock reading are drawn at the start
InitReconcile ==
  /\ now \in Clock
  /\ isInitialized = TRUE
  /\ settings = [flip |-> 1, reloc |-> 1]
  /\ trackers \in Registries(MaxDrawnEntries)
  /\ skipNextActivation = NoSkip
  /\ flstState = saveTrackingState(trackers, 1)
  /\ pendingGet = [w \in Windows |-> 0]
  /\ calls = <<>>
  /\ last = Ran("constructed", 0, NoTab, "", 0, ErrorResult, NoChange(<<>>))
  /\ steps = 0
  /\ fnArg = [tabarr |-> <<>>, excludeTabId |-> NoTab]
  /\ fnOut = NoTab
  /\ awaiting = <<>>
  /\ sw = ServiceWorkerOf(isInitialized, now)

\* a reconciliation, and then another one that gets the same answer
NextReconcile ==
  \/ \E q \in QueryResults : steps = 0 /\ steps' = 1 /\ reconcile(q)
  \/ steps = 1 /\ steps' = 2 /\ reconcile(last.q)

SpecReconcile == InitReconcile /\ [][NextReconcile]_vars

\* what storage can hold under "flstState" when the service worker starts: a
\* registry some earlier run saved, with a timestamp around maxAge before the
\* reading of the load, or an object without timestamp or without trackingState
LoadReadings == {2 * maxAge + k : k \in 0..MaxSkew}

StoredStates(t) ==
  {saveTrackingState(trs, ts) :
     trs \in Registries(MaxDrawnEntries),
     ts \in {t - maxAge + d : d \in (0 - MaxSkew)..MaxSkew} \cup {t, t + MaxSkew}}
    \cup {[trackingState |-> trs] : trs \in Registries(MaxDrawnEntries)}
    \cup {[timestamp |-> t]}

InitLoad ==
  /\ now \in LoadReadings
  /\ isInitialized = FALSE
  /\ settings = [flip |-> 1, reloc |-> 1]
  /\ trackers = <<>>
  /\ skipNextActivation = NoSkip
  /\ flstState \in StoredStates(now)
  /\ pendingGet = [w \in Windows |-> 0]
  /\ calls = <<>>
  /\ last = Ran("constructed", 0, NoTab, "", 0, ErrorResult, NoChange(<<>>))
  /\ steps = 0
  /\ fnArg = [tabarr |-> <<>>, excludeTabId |-> NoTab]
  /\ fnOut = NoTab
  /\ awaiting = <<>>
  /\ sw = ServiceWorkerOf(isInitialized, now)

\* StorageManager.loadTrackingState called on what storage holds
callLoadTrackingState ==
  /\ steps = 0
  /\ steps' = 1
  /\ fnOut' = loadTrackingState(flstState, now)
  /\ last' = Ran("loadTrackingState", 0, NoTab, "", 0, ErrorResult, NoChange(<<>>))
  /\ UNCHANGED <<now, isInitialized, settings, trackers, skipNextActivation,
                 flstState, pendingGet, calls, fnArg, awaiting, sw>>

SpecLoad == InitLoad /\ [][callLoadTrackingState]_vars

\* one corrective call, move or update, on a tab drawn at the start
InitRetry ==
  /\ now \in Clock
  /\ isInitialized = TRUE
  /\ settings = [flip |-> 1, reloc |-> 1]
  /\ trackers = <<>>
  /\ skipNextActivation = NoSkip
  /\ flstState = NoState
  /\ pendingGet = [w \in Windows |-> 0]
  /\ calls = <<>>
  /\ last = Ran("constructed", 0, NoTab, "", 0, ErrorResult, NoChange(<<>>))
  /\ steps = 0
  /\ fnArg \in {[op |-> op, tabId |-> t] : op \in {"move", "update"}, t \in Tabs}
  /\ fnOut = "pending"
  /\ awaiting = <<>>
  /\ sw = ServiceWorkerOf(isInitialized, now)

NextRetry ==
  \/ safeTabCall
  \/ \E errorMsg \in LastErrors : tabsCallback(1, errorMsg)
  \/ retryTimer(1)

\* the browser answers every call and every timer fires
SpecRetry == InitRetry /\ [][NextRetry]_vars /\ WF_vars(NextRetry)

\* a running extension that tracks one window with a drawn array, and the
\* listeners the browser calls while a tab is created, activated and closed;
\* the registry's list of trackers stays as it is
InitInterleave ==
  /\ now \in Clock
  /\ isInitialized = TRUE
  /\ settings = [flip |-> 1, reloc |-> 1]
  /\ trackers \in {<<Tracker(1, a)>> : a \in TabArrays(MaxDrawnEntries, 1..now)}
  /\ skipNextActivation = NoSkip
  /\ flstState = saveTrackingState(trackers, now)
  /\ pendingGet = [w \in Windows |-> 0]
  /\ calls = <<>>
  /\ last = Ran("constructed", 0, NoTab, "", 0, ErrorResult, NoChange(<<>>))
  /\ steps = 0
  /\ fnArg = [tabarr |-> <<>>, excludeTabId |-> NoTab]
  /\ fnOut = NoTab
  /\ awaiting = <<>>
  /\ sw = ServiceWorkerOf(isInitialized, now)

NextInterleave ==
  \/ \E t \in Tabs : Counted /\ awaiting = <<>> /\ handleNewTabAwait(1, t)
  \/ \E atFarRight \in BOOLEAN : UNCHANGED steps /\ handleNewTabResume(1, atFarRight)
  \/ \E t \in Tabs : Counted /\ handleTabClose(t)
  \/ \E t \in Tabs : Counted /\ ~MissesTab(1, t) /\ handleTabActivation(1, t, ErrorResult)

SpecInterleave == InitInterleave /\ [][NextInterleave]_vars

\* a running extension that tracks nothing or one window, whose array (with
\* orders up to the clock's reading) is drawn at the start, and one
\* reconciliation
InitReorder ==
  /\ now \in Clock
  /\ isInitialized = TRUE
  /\ settings = [flip |-> 1, reloc |-> 1]
  /\ trackers \in {<<>>} \cup {<<Tracker(w, a)>> :
                                 w \in Windows, a \in TabArrays(MaxDrawnEntries, 1..now)}
  /\ skipNextActivation = NoSkip
  /\ flstState = saveTrackingState(trackers, now)
  /\ pendingGet = [w \in Windows |-> 0]
  /\ calls = <<>>
  /\ last = Ran("constructed", 0, NoTab, "", 0, ErrorResult, NoChange(<<>>))
  /\ steps = 0
  /\ fnArg = [tabarr |-> <<>>, excludeTabId |-> NoTab]
  /\ fnOut = NoTab
  /\ awaiting = <<>>
  /\ sw = ServiceWorkerOf(isInitialized, now)

NextReorder == \E q \in QueryResults : steps = 0 /\ steps' = 1 /\ reconcile(q)

SpecReorder == InitReorder /\ [][NextReorder]_vars

\* the same start, and the listeners the browser calls while a reconciliation
\* is under way: its callback runs turn by turn, one reconciliation at a time
NextOvertaken ==
  \/ \E q \in QueryResults : Counted /\ awaiting = <<>> /\ reconcileAwait(q)
  \/ UNCHANGED steps /\ reconcileResume(1)
  \/ \E t \in Tabs : Counted /\ handleTabClose(t)
  \/ \E w \in Windows, t \in Tabs :
       Counted /\ ~MissesWindow(w) /\ handleTabAttach(t, w)
  \/ \E w \in Windows : Counted /\ handleWindowRemoved(w)

SpecOvertaken == InitReorder /\ [][NextOvertaken]_vars

\* the markers the handlers leave in skipNextActivation
SkipInfos ==
  {NoSkip} \cup {[reason |-> r, expectedTabId |-> NoTab] :
                   r \in {"NewTab", "CloseTab", "Attach", "Detach", "TabFlip"}}

\* a running extension that tracks one window, with any marker pending, and
\* one event of any kind; the events for a tab name a tracked window, except
\* for onAttached and onDetached
InitSkip ==
  /\ now = MaxClock
  /\ isInitialized = TRUE
  /\ settings = [flip |-> 1, reloc |-> 1]
  /\ trackers \in {<<Tracker(w, a)>> : w \in Windows, a \in TabArrays(MaxDrawnEntries, {now})}
  /\ skipNextActivation \in SkipInfos
  /\ flstState = saveTrackingState(trackers, now)
  /\ pendingGet = [w \in Windows |-> 0]
  /\ calls = <<>>
  /\ last = Ran("constructed", 0, NoTab, "", 0, ErrorResult, NoChange(<<>>))
  /\ steps = 0
  /\ fnArg = [tabarr |-> <<>>, excludeTabId |-> NoTab]
  /\ fnOut = NoTab
  /\ awaiting = <<>>
  /\ sw = ServiceWorkerOf(isInitialized, now)

Once == steps = 0 /\ steps' = 1

NextSkip ==
  \/ \E w \in Windows : Once /\ handleWindowCreated(w)
  \/ \E w \in Windows : Once /\ handleWindowRemoved(w)
  \/ \E q \in QueryResults : Once /\ reconcile(q)
  \/ \E w \in Windows, t \in Tabs : \E atFarRight \in BOOLEAN :
       Once /\ ~MissesWindow(w) /\ handleNewTab(w, t, ErrorResult, atFarRight)
  \/ \E t \in Tabs : Once /\ handleTabClose(t)
  \/ \E w \in Windows, t \in Tabs : \E q \in Answers(MissesTab(w, t)) :
       Once /\ ~MissesWindow(w) /\ handleTabActivation(w, t, q)
  \/ \E newId \in Tabs, oldId \in Tabs :
       newId # oldId /\ Once /\ handleTabReplacement(newId, oldId)
  \/ \E t \in Tabs, w \in Windows : Once /\ handleTabAttach(t, w)
  \/ \E t \in Tabs, w \in Windows : Once /\ handleTabDetach(t, w)
  \/ \E w \in Windows : Once /\ ~MissesWindow(w) /\ handleTabFlip(w, ErrorResult)

SpecSkip == InitSkip /\ [][NextSkip]_vars

\* the same start, and one onReplaced event
NextReplace ==
  \E newId \in Tabs, oldId \in Tabs :
    newId # oldId /\ Once /\ handleTabReplacement(newId, oldId)

SpecReplace == InitReorder /\ [][NextReplace]_vars

\* a restart: the windows the browser has open at the restart, one more than
\* the runs above open, their snapshots, and the registries the extension may
\* have saved before it
RestartWindows == 1..(MaxWindow + 1)

RestartSnapshots ==
  UNION {SnapshotsFrom(pl, SetToSeq(open)) :
           <<pl, open>> \in {p \in [Tabs -> RestartWindows \cup {0}] \X (SUBSET RestartWindows) :
                               \A tb \in Tabs : p[1][tb] # 0 => p[1][tb] \in p[2]}}

RestartRegistries ==
  {<<>>}
    \cup {<<Tracker(w, a)>> : w \in RestartWindows, a \in TabArrays(MaxDrawnEntries, 1..MaxClock)}
    \cup {<<Tracker(w1, a1), Tracker(w2, a2)>> :
            <<w1, a1, w2, a2>> \in
              {p \in RestartWindows \X TabArrays(MaxDrawnEntries, {1})
                       \X RestartWindows \X TabArrays(MaxDrawnEntries, {1}) :
                 Len(p[2]) + Len(p[4]) <= MaxDrawnEntries}}

\* a constructed extension, a state saved less than maxAge ago, and one call
\* of initialize
InitRestart ==
  /\ now = MaxClock
  /\ isInitialized = FALSE
  /\ settings = [flip |-> 1, reloc |-> 1]
  /\ trackers = <<>>
  /\ skipNextActivation = NoSkip
  /\ flstState \in {saveTrackingState(trs, 1) : trs \in RestartRegistries}
  /\ pendingGet = [w \in Windows |-> 0]
  /\ calls = <<>>
  /\ last = Ran("constructed", 0, NoTab, "", 0, ErrorResult, NoChange(<<>>))
  /\ steps = 0
  /\ fnArg = [tabarr |-> <<>>, excludeTabId |-> NoTab]
  /\ fnOut = NoTab
  /\ awaiting = <<>>
  /\ sw = ServiceWorkerOf(isInitialized, now)

NextRestart ==
  \E q \in {[ok |-> TRUE, windows |-> ws] : ws \in RestartSnapshots} \cup {ErrorResult} :
    Once /\ initialize(q, 1, 1)

SpecRestart == InitRestart /\ [][NextRestart]_vars

\* a running extension that tracks two normal windows with drawn arrays, no
\* tab in both, and the listeners the browser calls while tabs are dragged from one
\* window to the other, with the reconciliations in between
InitMove ==
  /\ now = 1
  /\ isInitialized = TRUE
  /\ settings = [flip |-> 1, reloc |-> 1]
  /\ trackers \in {<<Tracker(1, a1), [Tracker(MaxWindow + 1, a2) EXCEPT !.moveok = TRUE]>> :
                     <<a1, a2>> \in {p \in TabArrays(MaxDrawnEntries, {1})
                                            \X TabArrays(MaxDrawnEntries, {1}) :
                                       /\ Len(p[1]) + Len(p[2]) <= MaxDrawnEntries
                                       /\ \A j \in 1..Len(p[1]), k \in 1..Len(p[2]) :
                                            p[1][j].tabId # p[2][k].tabId
                                       /\ \A j, k \in 1..Len(p[1]) :
                                            p[1][j].tabId = p[1][k].tabId => j = k
                                       /\ \A j, k \in 1..Len(p[2]) :
                                            p[2][j].tabId = p[2][k].tabId => j = k}}
  /\ skipNextActivation = NoSkip
  /\ flstState = saveTrackingState(trackers, now)
  /\ pendingGet = [w \in Windows |-> 0]
  /\ calls = <<>>
  /\ last = Ran("constructed", 0, NoTab, "", 0, ErrorResult, NoChange(<<>>))
  /\ steps = 0
  /\ fnArg = [tabarr |-> <<>>, excludeTabId |-> NoTab]
  /\ fnOut = NoTab
  /\ awaiting = <<>>
  /\ sw = ServiceWorkerOf(isInitialized, now)

NextMove ==
  \/ \E t \in Tabs, w \in RestartWindows :
       Counted /\ getWindowTracker(trackers, w) # 0 /\ handleTabAttach(t, w)
  \/ \E t \in Tabs, w \in RestartWindows :
       Counted /\ getWindowTracker(trackers, w) # 0 /\ handleTabDetach(t, w)
  \/ \E ws \in RestartSnapshots : Counted /\ reconcile([ok |-> TRUE, windows |-> ws])

SpecMove == InitMove /\ [][NextMove]_vars

\* the calls FLST_DEBUG offers on a constructed extension: initialize
\* (reinitialize) and shutdown, in any sequence
NextReinit ==
  \/ \E q \in QueryResults : Counted /\ initialize(q, 1, 1)
  \/ shutdown

SpecReinit == Init /\ [][NextReinit]_vars

\* the same start, and the life of the service worker from then on: time
\* passes, the browser calls the lifecycle listeners, the interval timer
\* ticks, the reconciliations that were set run, the extension is shut down
NextLifecycle ==
  \/ \E t \in Readings : Elapse(t)
  \/ \E event \in LifecycleEvents : lifecycleEvent(event)
  \/ onSuspend
  \/ onPing
  \/ \E answered \in BOOLEAN : intervalTick(answered)
  \/ \E q \in QueryResults : reconciliationTimeout(q)
  \/ shutdown

\* a timer that is set fires
SpecLifecycle ==
  /\ InitReorder
  /\ [][NextLifecycle]_vars
  /\ WF_vars(\E answered \in BOOLEAN : intervalTick(answered))
  /\ WF_vars(\E q \in QueryResults : reconciliationTimeout(q))

\* ======================================================= properties
\* the ids whose entry has the highest order among the entries other than ex
MaxOrderIds(tabarr, ex) ==
  {tabarr[i].tabId : i \in {k \in 1..Len(tabarr) :
     /\ tabarr[k].tabId # ex
     /\ \A j \in 1..Len(tabarr) :
          tabarr[j].tabId # ex => tabarr[j].order <= tabarr[k].order}}

\* the tab ids the registry holds for window w, over all of its trackers
TrackedIds(trs, w) ==
  UNION {TabIds(trs[i].tabarr) : i \in {k \in 1..Len(trs) : trs[k].wid = w}}

TrackerWids(trs) == {trs[i].wid : i \in 1..Len(trs)}

\* the entries of tab id x, with their positions, in every tracker
EntriesOf(trs, x) ==
  {<<i, k, trs[i].tabarr[k].order>> :
     <<i, k>> \in {p \in (1..Len(trs)) \X (1..MaxLen) :
                     /\ p[2] <= Len(trs[p[1]].tabarr)
                     /\ trs[p[1]].tabarr[p[2]].tabId = x}}

\* a handler ran in this step
Handled == steps' # steps

\* C1: in every reachable state the tab ids of each tracker's MRU array are
\* pairwise distinct
C1_Uniqueness ==
  \A i \in 1..Len(trackers) :
    \A j, k \in 1..Len(trackers[i].tabarr) :
      j # k => trackers[i].tabarr[j].tabId # trackers[i].tabarr[k].tabId

\* C2: an activation of a tab tracked in the reported window, handled while
\* no skip is pending, leaves that tab the one getMostRecentTabId returns
C2_ActivatedIsMostRecent ==
  [][(/\ Handled
      /\ last'.op = "activated"
      /\ skipNextActivation = NoSkip
      /\ TrackerIndex(trackers, last'.wid) # 0
      /\ IndexOfTab(trackers[TrackerIndex(trackers, last'.wid)].tabarr, last'.tab) # 0)
     => /\ TrackerIndex(trackers', last'.wid) # 0
        /\ getMostRecentTabId(trackers'[TrackerIndex(trackers', last'.wid)].tabarr)
             = last'.tab]_vars

\* C3: after a close has focused tab X, an activation of another tab Y makes
\* the handler focus X again, exactly once, and leaves the entries of Y alone
C3_WrongTabIsCorrected ==
  [][(/\ Handled
      /\ last.op = "closed" /\ last.branch = "select"
      /\ last'.op = "activated"
      /\ last'.tab # calls[1].tabId)
     => /\ calls' = <<[op |-> "update", tabId |-> calls[1].tabId]>>
        /\ EntriesOf(trackers', last'.tab) = EntriesOf(trackers, last'.tab)]_vars

\* C4: after a close has focused tab X, the activation of X clears the skip,
\* focuses nothing, and leaves X the most recent tab of its window with the
\* ranking of the other tabs as it was
C4_ExpectedTabIsAbsorbed ==
  [][(/\ Handled
      /\ last.op = "closed" /\ last.branch = "select"
      /\ last'.op = "activated"
      /\ last'.tab = calls[1].tabId)
     => LET x == calls[1].tabId
            i == findTab(trackers, x).tr
        IN /\ skipNextActivation' = NoSkip
           /\ calls' = <<>>
           /\ Len(trackers') = Len(trackers)
           /\ getMostRecentTabId(trackers'[i].tabarr) = x
           /\ SortDesc(SelectSeq(trackers'[i].tabarr, LAMBDA e : e.tabId # x))
                = SortDesc(SelectSeq(trackers[i].tabarr, LAMBDA e : e.tabId # x))]_vars

\* C5: closing a tracked tab c with flip on, in a window that tracks at least
\* two other tabs, focuses exactly one tab, one of highest order among the
\* others before the removal; afterwards c is gone from the array and the
\* focused tab is the most recent one
C5_CloseSelectsMostRecent ==
  [][(/\ Handled
      /\ last'.op = "closed"
      /\ SettingOn("flip")
      /\ findTab(trackers, last'.tab).tr # 0
      /\ Cardinality(TabIds(trackers[findTab(trackers, last'.tab).tr].tabarr)
                       \ {last'.tab}) >= 2)
     => LET c == last'.tab
            i == findTab(trackers, c).tr
        IN /\ Len(calls') = 1
           /\ calls'[1].op = "update"
           /\ calls'[1].tabId \in MaxOrderIds(trackers[i].tabarr, c)
           /\ c \notin TabIds(trackers'[i].tabarr)
           /\ getMostRecentTabId(trackers'[i].tabarr) = calls'[1].tabId]_vars

\* the entry the order-descending ranking puts first is one of tab x: no
\* entry before it has an order as high, none after it a higher one
IsMostRecent(tabarr, x) ==
  \E i \in 1..Len(tabarr) :
    /\ tabarr[i].tabId = x
    /\ \A j \in 1..Len(tabarr) :
         /\ j < i => tabarr[j].order < tabarr[i].order
         /\ j > i => tabarr[j].order <= tabarr[i].order

\* C6: getMostRecentTabExcluding never returns the excluded id, returns none
\* exactly when no entry has another id, and otherwise returns the id of an
\* entry whose order is maximal among the entries of other ids
C6_MostRecentExcluding ==
  last.op = "getMostRecentTabExcluding"
    => /\ fnOut # fnArg.excludeTabId
       /\ (fnOut = NoTab) <=> (TabIds(fnArg.tabarr) \subseteq {fnArg.excludeTabId})
       /\ fnOut # NoTab => fnOut \in MaxOrderIds(fnArg.tabarr, fnArg.excludeTabId)

\* C6 happens: a call on an array of three entries that holds the excluded id
\* and two other ids of different orders has returned an id
C6_Witness ==
  /\ last.op = "getMostRecentTabExcluding"
  /\ fnOut # NoTab
  /\ Len(fnArg.tabarr) = 3
  /\ fnArg.excludeTabId \in TabIds(fnArg.tabarr)
  /\ Cardinality(TabIds(fnArg.tabarr)) = 3
  /\ Cardinality(MaxOrderIds(fnArg.tabarr, fnArg.excludeTabId)) = 1

\* C7: an activation, handled while no skip is pending, of the tab that is
\* already the most recent one of the reported window's tracker changes no
\* entry, order or position, nor the skip, nor the saved state, and makes no
\* browser call
C7_TouchIdempotence ==
  [][(/\ Handled
      /\ last'.op = "activated"
      /\ skipNextActivation = NoSkip
      /\ TrackerIndex(trackers, last'.wid) # 0
      /\ IsMostRecent(trackers[TrackerIndex(trackers, last'.wid)].tabarr, last'.tab))
     => /\ trackers' = trackers
        /\ skipNextActivation' = skipNextActivation
        /\ flstState' = flstState
        /\ pendingGet' = pendingGet
        /\ calls' = <<>>]_vars

\* C7 happens: the handler found the activated tab already the most recent of
\* an array of three distinct tabs, at a later reading than the tab's order
C7_Witness ==
  /\ last.op = "activated"
  /\ last.branch = "already"
  /\ TrackerIndex(trackers, last.wid) # 0
  /\ LET tabarr == trackers[TrackerIndex(trackers, last.wid)].tabarr
     IN /\ Cardinality(TabIds(tabarr)) = 3
        /\ IsMostRecent(tabarr, last.tab)
        /\ \A i \in 1..Len(tabarr) : tabarr[i].order < now

\* C8: a reconciliation that follows one with the same answer of the browser
\* changes no tracker and no array, counts no change, writes nothing, and
\* leaves the saved state as the first one left it
C8_ReconcileIdempotence ==
  [][(/\ Handled
      /\ last.op = "reconcile" /\ last.q.ok
      /\ last'.op = "reconcile" /\ last'.q = last.q)
     => /\ trackers' = trackers
        /\ flstState' = flstState
        /\ last'.changes = 0
        /\ last'.writes = 0]_vars

\* C8 happens: a second reconciliation has followed one that made changes, on
\* a registry that still tracks a tab
C8_Witness ==
  /\ last.op = "reconcile"
  /\ last.rep
  /\ last.first > 0
  /\ \E i \in 1..Len(trackers) : Len(trackers[i].tabarr) > 0

\* no array holds a tab id twice and no window has two trackers
NoDuplicates(trs) ==
  /\ \A i \in 1..Len(trs) : \A j, k \in 1..Len(trs[i].tabarr) :
       j # k => trs[i].tabarr[j].tabId # trs[i].tabarr[k].tabId
  /\ \A i, j \in 1..Len(trs) : i # j => trs[i].wid # trs[j].wid

\* C9: right after a reconciliation the registry has the windows the browser
\* reported, and for each of them exactly the tabs the browser reported
C9_ReconciledMatchesBrowser ==
  (last.op = "reconcile" /\ last.q.ok)
    => /\ TrackerWids(trackers) = SnapshotWindowIds(last.q.windows)
       /\ \A w \in TrackerWids(trackers) :
            TrackedIds(trackers, w) = SnapshotTabIds(last.q.windows, w)

\* C10: a missing tab that the browser reports active is, once the
\* reconciliation has inserted it, the tab getMostRecentTabId returns
C10_InsertedActiveIsMostRecent ==
  [][(Handled /\ last'.op = "reconcile" /\ last'.q.ok)
     => \A k \in 1..Len(last'.q.windows) :
          LET windowObj == last'.q.windows[k]
              index == TrackerIndex(trackers, windowObj.id)
              active == selectedIdOf(windowObj.tabs)
          IN (/\ index # 0
              /\ active # NoTab
              /\ active \notin TabIds(trackers[index].tabarr))
             => getMostRecentTabId(
                  trackers'[TrackerIndex(trackers', windowObj.id)].tabarr) = active]_vars

\* C11: a window registered from a tab list with exactly one active tab gets
\* an array that holds every listed tab exactly once, and the active tab is
\* the one getMostRecentTabId returns
C11_RegistrationRanksActive ==
  (last.op = "initialize" /\ last.branch = "fresh")
    => \A k \in 1..Len(last.q.windows) :
         LET windowObj == last.q.windows[k]
             tabarr == trackers[k].tabarr
         IN Len(ActiveIds(windowObj.tabs)) = 1
            => /\ Len(tabarr) = Len(windowObj.tabs)
               /\ TabIds(tabarr) = {windowObj.tabs[i].id : i \in 1..Len(windowObj.tabs)}
               /\ getMostRecentTabId(tabarr) = selectedIdOf(windowObj.tabs)

\* C12: a flip handled with flip on for a tracked window of at least two tabs
\* swaps the two highest ranks of the order-descending ranking, keeps the
\* entries' ids as they were, leaves a TabFlip skip pending and focuses the
\* promoted tab exactly once
C12_FlipSwapsTopTwo ==
  [][(/\ Handled
      /\ last'.op = "flip"
      /\ SettingOn("flip")
      /\ TrackerIndex(trackers, last'.wid) # 0
      /\ Cardinality(TabIds(trackers[TrackerIndex(trackers, last'.wid)].tabarr)) >= 2)
     => LET index == TrackerIndex(trackers, last'.wid)
            before == SortDesc(trackers[index].tabarr)
            after == SortDesc(trackers'[index].tabarr)
        IN /\ Len(trackers') = Len(trackers)
           /\ trackedTabIdsOf(trackers'[index].tabarr)
                = trackedTabIdsOf(trackers[index].tabarr)
           /\ after[1].tabId = before[2].tabId
           /\ after[2].tabId = before[1].tabId
           /\ skipNextActivation'.reason = "TabFlip"
           /\ calls' = <<[op |-> "update", tabId |-> before[2].tabId]>>]_vars

\* C13: of two flips handled back to back on the same window, the second one
\* leaves most recent the tab that was most recent before the first one
C13_FlipPingPong ==
  [][(/\ Handled
      /\ last.op = "flip" /\ last.branch = "flipped"
      /\ last'.op = "flip" /\ last'.branch = "flipped"
      /\ last'.wid = last.wid)
     => getMostRecentTabId(trackers'[TrackerIndex(trackers', last'.wid)].tabarr)
          = last.top]_vars

\* C14: loadTrackingState returns [] for a stored state whose timestamp is
\* missing or more than 24 hours before the reading of the load, and the stored
\* trackers unchanged for a state with trackers and a timestamp not older
C14_StaleStateIsDiscarded ==
  last.op = "loadTrackingState"
    => /\ ("timestamp" \notin DOMAIN flstState) => fnOut = <<>>
       /\ ("timestamp" \in DOMAIN flstState /\ now - flstState.timestamp > maxAge)
            => fnOut = <<>>
       /\ (/\ DOMAIN flstState = {"trackingState", "timestamp"}
           /\ now - flstState.timestamp <= maxAge)
            => fnOut = flstState.trackingState

\* C14 happens: a load has returned the trackers of a state exactly 24 hours old
C14_Witness ==
  /\ last.op = "loadTrackingState"
  /\ DOMAIN flstState = {"trackingState", "timestamp"}
  /\ now - flstState.timestamp = maxAge
  /\ Len(flstState.trackingState) > 0
  /\ fnOut = flstState.trackingState

\* C15: a handler starts only when no other handler is waiting at an await:
\* every handler runs to completion before the next one touches the registry
C15_HandlersRunToCompletion ==
  [][Handled => awaiting = <<>>]_vars

\* C16: a safe tab call makes at most maxRetries + 1 browser calls, makes
\* another one only after the previous one failed with the dragging message,
\* ends in failure right after an attempt that failed otherwise, and always
\* ends, in success or in failure
C16_BoundedRetry ==
  /\ [](Len(calls) <= maxRetries + 1)
  /\ [][(calls # <<>> /\ Len(calls') > Len(calls))
          => (last.op = "tabsCallback" /\ last.branch = DraggingMessage)]_vars
  /\ [][(last'.op = "tabsCallback" /\ last' # last
           /\ last'.branch \notin {NoError, DraggingMessage})
          => (awaiting' = <<>> /\ fnOut' = "failed")]_vars
  /\ <>[](awaiting = <<>> /\ fnOut \in {"success", "failed"})

\* C16 happens: a call was given up after the dragging message answered the
\* first attempt and each of the maxRetries retries
C16_Witness ==
  /\ fnOut = "failed"
  /\ awaiting = <<>>
  /\ Len(calls) = maxRetries + 1
  /\ last.op = "tabsCallback"
  /\ last.branch = DraggingMessage

\* the rank of tab x in the order-descending ranking of tabarr (1: most recent)
RankOf(tabarr, x) == IndexOfTab(SortDesc(tabarr), x)

\* C17: a tab inserted at the head of a tracked window's array, by
\* handleNewTab without selection or by a reconciliation that finds a
\* non-active tab missing, ranks below every tab the array already held
C17_HeadInsertionIsLeastRecent ==
  [][(/\ Handled
      /\ last'.queried = (IF last'.op = "reconcile" THEN 1 ELSE 0)
      /\ \/ last'.op = "created" /\ last'.branch = "first"
         \/ last'.op = "reconcile" /\ last'.q.ok)
     => \A w \in TrackerWids(trackers) \cap TrackerWids(trackers') :
          LET old == trackers[TrackerIndex(trackers, w)].tabarr
              new == trackers'[TrackerIndex(trackers', w)].tabarr
          IN \A x \in TabIds(new) \ TabIds(old) :
               \A y \in TabIds(new) \cap TabIds(old) :
                 (\/ last'.op = "created"
                  \/ \E k \in 1..Len(last'.q.windows) :
                       /\ last'.q.windows[k].id = w
                       /\ ~IsActiveIn(last'.q.windows[k].tabs, x))
                 => RankOf(new, x) > RankOf(new, y)]_vars

\* C18: a reconciliation leaves the entries of the tabs a window tracks both
\* before and after it as they were, with their orders, their positions
\* relative to each other and hence their relative ranks; the ids it adds are
\* reported and were untracked, the ids it removes were tracked and are not
\* reported
C18_ReconcileKeepsMatched ==
  [][(Handled /\ last'.op = "reconcile" /\ last'.q.ok)
     => \A w \in TrackerWids(trackers) \cap TrackerWids(trackers') :
          LET old == trackers[TrackerIndex(trackers, w)].tabarr
              new == trackers'[TrackerIndex(trackers', w)].tabarr
              reported == SnapshotTabIds(last'.q.windows, w)
          IN /\ SelectSeq(new, LAMBDA e : e.tabId \in TabIds(old))
                  = SelectSeq(old, LAMBDA e : e.tabId \in TabIds(new))
             /\ \A x, y \in TabIds(old) \cap TabIds(new) :
                  (RankOf(new, x) < RankOf(new, y)) <=> (RankOf(old, x) < RankOf(old, y))
             /\ TabIds(new) \ TabIds(old) = reported \ TabIds(old)
             /\ TabIds(old) \ TabIds(new) = TabIds(old) \ reported]_vars

\* C18 happens: a reconciliation has made one change, the insertion of a
\* missing tab at the head of an array that keeps two tabs of different
\* orders, the older one at the higher index
C18_Witness ==
  /\ last.op = "reconcile"
  /\ last.q.ok
  /\ last.changes = 1
  /\ \E i \in 1..Len(trackers) :
       LET tabarr == trackers[i].tabarr
       IN /\ Len(tabarr) = 3
          /\ Cardinality(TabIds(tabarr)) = 3
          /\ tabarr[3].order < tabarr[2].order

\* C19: the close of a tracked tab c removes c from its array and leaves
\* every other entry, of that array and of the others, as it was; when flip
\* is off or the array holds fewer than two entries as the close is handled,
\* the handler focuses nothing and leaves the skip as it was
C19_CloseWithoutFlip ==
  [][(/\ Handled
      /\ last'.op = "closed"
      /\ findTab(trackers, last'.tab).tr # 0)
     => LET c == last'.tab
            i == findTab(trackers, c).tr
            tabarr == trackers[i].tabarr
        IN /\ (~SettingOn("flip") \/ Len(tabarr) < 2)
                => (calls' = <<>> /\ skipNextActivation' = skipNextActivation)
           /\ Len(trackers') = Len(trackers)
           /\ c \notin TabIds(trackers'[i].tabarr)
           /\ trackers'[i].tabarr = SelectSeq(tabarr, LAMBDA e : e.tabId # c)
           /\ \A k \in 1..Len(trackers) : k # i => trackers'[k] = trackers[k]]_vars

\* C20: once the close handler has focused a replacement tab, and until the
\* next handler runs, the pending skip has reason CloseTab and carries the id
\* of that tab, the one getMostRecentTabExcluding gave before the removal
C20_SkipCarriesExpectedTab ==
  (last.op = "closed" /\ last.branch = "select")
    => /\ skipNextActivation.reason = "CloseTab"
       /\ skipNextActivation.expectedTabId = calls[1].tabId

\* C21: handleNewTab and handleTabAttach for a tab the window's array
\* already holds, and a reconciliation for the tabs it already holds, leave
\* the length, the entries and the orders of the array as they were
C21_InsertOfTrackedIsNoOp ==
  [][(/\ Handled
      /\ last'.op \in {"created", "attached", "reconcile"}
      /\ last'.queried = (IF last'.op = "reconcile" THEN 1 ELSE 0))
     => \A w \in TrackerWids(trackers) \cap TrackerWids(trackers') :
          LET old == trackers[TrackerIndex(trackers, w)].tabarr
              new == trackers'[TrackerIndex(trackers', w)].tabarr
          IN IF last'.op = "reconcile"
             THEN (last'.q.ok /\ SnapshotTabIds(last'.q.windows, w) \subseteq TabIds(old))
                    => SelectSeq(new, LAMBDA e : e.tabId \in SnapshotTabIds(last'.q.windows, w))
                         = SelectSeq(old, LAMBDA e : e.tabId \in SnapshotTabIds(last'.q.windows, w))
             ELSE (last'.wid = w /\ last'.tab \in TabIds(old)) => new = old]_vars

\* C22: no listener runs between the turn in which a reconciliation got the
\* answer of getAll and the turn in which it has finished changing and
\* saving the registry
C22_ReconcileIsAtomic ==
  [][Handled => \A i \in 1..Len(awaiting) : awaiting[i].kind # "reconcile"]_vars

\* C23: when a handler has changed the registry and no callback is left to
\* run, the trackers saved under flstState are the trackers in memory
C23_PersistenceFollowsMutation ==
  [][(/\ Handled
      /\ trackers' # trackers
      /\ awaiting' = <<>>
      /\ \A w \in Windows : pendingGet'[w] = 0)
     => /\ "trackingState" \in DOMAIN flstState'
        /\ flstState'.trackingState = trackers']_vars

\* C24: shutdown leaves the registry empty and no interval timer set, and
\* once the extension is shut down no timer or callback changes the registry
C24_ShutdownIsFinal ==
  /\ [][shutdown => (trackers' = <<>> /\ ~sw'.reactivationCheckTimer)]_vars
  /\ [][~isInitialized => trackers' = trackers]_vars

\* C24, second half alone: after the shutdown the registry stays empty
C24_RegistryStaysEmpty == ~isInitialized => trackers = <<>>

\* C26: a lifecycle listener or the ping listener that runs more than the
\* threshold after lastActivationTime sets a reconciliation to run, which then
\* runs; one that runs within the threshold sets none; both leave
\* lastActivationTime at the current reading
C26_DormancyDetection ==
  /\ [][((\E event \in LifecycleEvents : lifecycleEvent(event)) \/ onPing)
        => /\ sw'.lastActivationTime = now
           /\ sw'.scheduled = IF now - sw.lastActivationTime > reactivationThreshold
                              THEN sw.scheduled + 1 ELSE sw.scheduled]_vars
  /\ (sw.scheduled > 0) ~> (last.op = "reconciliationTimeout")

\* C26 for the lifecycle listeners alone
C26_LifecycleListeners ==
  /\ [][(\E event \in LifecycleEvents : lifecycleEvent(event))
        => /\ sw'.lastActivationTime = now
           /\ sw'.scheduled = IF now - sw.lastActivationTime > reactivationThreshold
                              THEN sw.scheduled + 1 ELSE sw.scheduled]_vars
  /\ (sw.scheduled > 0) ~> (last.op = "reconciliationTimeout")

\* C27: while the extension is initialized every tick of the interval timer
\* sets a reconciliation to run, and as long as the timer stays set
\* reconciliations run again and again
C27_PeriodicReconciliation ==
  /\ [][(isInitialized /\ \E answered \in BOOLEAN : intervalTick(answered))
        => sw'.scheduled = sw.scheduled + 1]_vars
  /\ ([](isInitialized /\ sw.reactivationCheckTimer))
       => []<>(last.op = "reconciliationTimeout")

\* C27, the ticks whose ping is answered: they set no reconciliation
C27_AnsweredTickSetsNone ==
  [][intervalTick(TRUE) => sw'.scheduled = sw.scheduled]_vars

\* C25: a handler that looks up a window or a tab the registry does not hold
\* runs reconcileWithBrowserState exactly once and looks again; when the
\* second lookup fails too, the registry is left as the reconciliation left it
C25_MissRecoversOnce ==
  [][(/\ Handled
      /\ \/ last'.op \in {"created", "attached", "detached"} /\ MissesWindow(last'.wid)
         \/ last'.op = "flip" /\ last'.branch # "off" /\ MissesWindow(last'.wid)
         \/ last'.op = "closed" /\ findTab(trackers, last'.tab).tr = 0
         \/ /\ last'.op = "activated"
            /\ last'.branch \notin {"skip", "correct"}
            /\ MissesTab(last'.wid, last'.tab))
     => /\ last'.queried = 1
        /\ last'.branch \in {"nowindow", "notab", "notfound"}
             => trackers' = Reconciled(trackers, last'.q, now).trackers]_vars

\* C28: only handleTabActivation sets skipNextActivation back to null, every
\* other handler leaves it or assigns a marker; and an activation that finds
\* a marker other than CloseTab pending clears it and changes no array, no
\* order and nothing in storage
C28_OnlyActivationClearsSkip ==
  /\ [][(skipNextActivation # NoSkip /\ skipNextActivation' = NoSkip)
        => last'.op = "activated"]_vars
  /\ [][(/\ Handled
         /\ last'.op = "activated"
         /\ skipNextActivation.reason \notin {"none", "CloseTab"})
        => /\ skipNextActivation' = NoSkip
           /\ trackers' = trackers
           /\ flstState' = flstState]_vars

C28_Witness ==
  /\ last.op = "activated"
  /\ last.branch = "skip"
  /\ skipNextActivation = NoSkip
  /\ Len(trackers) = 1
  /\ Len(trackers[1].tabarr) >= 2
  /\ last.tab \in TabIds(trackers[1].tabarr)
  /\ last.tab # getMostRecentTabId(trackers[1].tabarr)

\* C29: handleTabReplacement for an old id the registry holds rewrites the id
\* of one entry of that id, which keeps its position and its order, and
\* leaves every other entry and every tracker as it was; for an old id the
\* registry does not hold it changes nothing
C29_ReplacementRewritesOneEntry ==
  [][\A newId \in Tabs, oldId \in Tabs :
       (Handled /\ newId # oldId /\ handleTabReplacement(newId, oldId))
       => IF EntriesOf(trackers, oldId) = {}
          THEN trackers' = trackers /\ flstState' = flstState
          ELSE \E e \in EntriesOf(trackers, oldId) :
                 /\ Len(trackers') = Len(trackers)
                 /\ \A i \in 1..Len(trackers) :
                      /\ trackers'[i].wid = trackers[i].wid
                      /\ trackers'[i].moveok = trackers[i].moveok
                      /\ Len(trackers'[i].tabarr) = Len(trackers[i].tabarr)
                      /\ \A k \in 1..Len(trackers[i].tabarr) :
                           trackers'[i].tabarr[k] =
                             IF <<i, k>> = <<e[1], e[2]>>
                             THEN [tabId |-> newId, order |-> e[3]]
                             ELSE trackers[i].tabarr[k]]_vars

C29_Witness ==
  /\ last.op = "replaced"
  /\ last.branch = "rewritten"
  /\ Len(trackers) = 1
  /\ Len(trackers[1].tabarr) = 2
  /\ trackers[1].tabarr[1].tabId = last.tab
  /\ trackers[1].tabarr[1].order < now
  /\ trackers[1].tabarr[2].tabId # last.tab

\* C30: handleTabDetach for a tracked window removes the tab from that
\* window's array; when entries are left it issues one chrome.tabs.update,
\* on the most recent of them, and leaves a Detach marker; when none is left
\* it issues no call and leaves the marker as it was
C30_DetachFocusesMostRecent ==
  [][(/\ Handled
      /\ last'.op = "detached"
      /\ ~MissesWindow(last'.wid))
     => LET d == last'.tab
            i == getWindowTracker(trackers, last'.wid)
            tabarr == trackers[i].tabarr
            left == trackers'[i].tabarr
        IN /\ Len(trackers') = Len(trackers)
           /\ d \notin TabIds(left)
           /\ left = SelectSeq(tabarr, LAMBDA e : e.tabId # d)
           /\ IF left # <<>>
              THEN /\ calls' = <<[op |-> "update", tabId |-> getMostRecentTabId(left)]>>
                   /\ skipNextActivation'.reason = "Detach"
              ELSE /\ calls' = <<>>
                   /\ skipNextActivation' = skipNextActivation]_vars

\* C31: handleNewTab for an untracked tab of a tracked window issues
\* chrome.tabs.move only if reloc is on and the window is movable; when the
\* setting update just handled set ntsel to 1 it issues chrome.tabs.update on
\* the tab and pushes it at the end of the array; when that update set ntsel
\* to 0 it issues no update and puts the tab at the front; either way the tab
\* is then listed exactly once
C31_NewTabFollowsPolicy ==
  [][(/\ Handled
      /\ last.op = "settingUpdate"
      /\ last.branch = "ntsel"
      /\ last'.op = "created"
      /\ ~MissesWindow(last'.wid)
      /\ last'.tab \notin TabIds(trackers[getWindowTracker(trackers, last'.wid)].tabarr))
     => LET t == last'.tab
            i == getWindowTracker(trackers, last'.wid)
            tabarr == trackers'[i].tabarr
            focus == [op |-> "update", tabId |-> t]
            issued == {calls'[k] : k \in 1..Len(calls')}
        IN /\ [op |-> "move", tabId |-> t] \in issued
                => (SettingOn("reloc") /\ trackers[i].moveok)
           /\ Len(SelectSeq(tabarr, LAMBDA e : e.tabId = t)) = 1
           /\ IF last.value = 1
              THEN focus \in issued /\ tabarr[Len(tabarr)].tabId = t
              ELSE focus \notin issued /\ tabarr[1].tabId = t]_vars

\* C32: once handleWindowRemoved has run for window c the registry has no
\* tracker of c, and a tracker of c comes back only in a step in which the
\* browser reports c (the callback of chrome.windows.get, or a getAll
\* answer), whatever chrome.windows.get requests are in flight
C32_RemovedWindowIsGone ==
  /\ [][(Handled /\ last'.op = "windowRemoved")
        => last'.wid \notin TrackerWids(trackers')]_vars
  /\ [][\A c \in Windows :
          (c \notin TrackerWids(trackers) /\ c \in TrackerWids(trackers'))
          => \/ last'.op = "windowsGet" /\ last'.wid = c /\ last'.branch = "added"
             \/ last'.queried > 0 /\ c \in SnapshotWindowIds(last'.q.windows)]_vars

\* C32, second half alone
C32_ReappearsOnlyWhenReported ==
  [][\A c \in Windows :
       (c \notin TrackerWids(trackers) /\ c \in TrackerWids(trackers'))
       => \/ last'.op = "windowsGet" /\ last'.wid = c /\ last'.branch = "added"
          \/ last'.queried > 0 /\ c \in SnapshotWindowIds(last'.q.windows)]_vars

\* the loaded trackers and the windows the browser reports disagree: in the
\* windows, in the tabs of a window, or a tracker lists a tab twice
Disagree(restored, windows) ==
  \/ TrackerWids(restored) # SnapshotWindowIds(windows)
  \/ \E w \in TrackerWids(restored) : TrackedIds(restored, w) # SnapshotTabIds(windows, w)
  \/ \E i \in 1..Len(restored) :
       \E j, k \in 1..Len(restored[i].tabarr) :
         j # k /\ restored[i].tabarr[j].tabId = restored[i].tabarr[k].tabId

\* C33: when initialize has loaded trackers that disagree with the windows
\* getAll reports, the registry it leaves is the one setTracking builds from
\* those windows
C33_MismatchIsDiscarded ==
  [][(/\ Handled
      /\ last'.op = "initialize"
      /\ last'.q.ok
      /\ loadTrackingState(flstState, now) # <<>>
      /\ Disagree(loadTrackingState(flstState, now), last'.q.windows))
     => trackers' = setTracking(last'.q.windows, now)]_vars

\* C34: the registry holds at most one tracker of a window
C34_OneTrackerPerWindow ==
  \A i, j \in 1..Len(trackers) : trackers[i].wid = trackers[j].wid => i = j

\* C35: an activation of a tracked tab that a marker absorbs, in the step
\* after the handler that left the marker, is the answer to a
\* chrome.tabs.update that handler issued for that tab
C35_AbsorbedIsAnEcho ==
  [][(/\ Handled
      /\ \/ last.op = "attached" /\ last.branch = "added"
         \/ \E i \in 1..Len(calls) : calls[i].op = "update"
      /\ skipNextActivation # NoSkip
      /\ last'.op = "activated"
      /\ last'.branch = "skip"
      /\ last'.tab \in TrackedIds(trackers, last'.wid))
     => \E i \in 1..Len(calls) : calls[i] = [op |-> "update", tabId |-> last'.tab]]_vars

\* C36: when handleTabClose for a tab has run while handleNewTab for that tab
\* waited at its await, the tab is in no tracker once handleNewTab has finished
C36_ClosedIsForgotten ==
  [][(/\ last.op = "closed"
      /\ Len(awaiting') < Len(awaiting)
      /\ last'.op = "created"
      /\ last'.tab = last.tab)
     => \A i \in 1..Len(trackers') : IndexOfTab(trackers'[i].tabarr, last.tab) = 0]_vars

\* C37: no tab is listed by the trackers of two windows
C37_OneWindowPerTab ==
  \A i, j \in 1..Len(trackers) :
    trackers[i].wid # trackers[j].wid
      => \A t \in Tabs : IndexOfTab(trackers[i].tabarr, t) = 0
                           \/ IndexOfTab(trackers[j].tabarr, t) = 0

\* C38: when initialize has loaded trackers that name exactly the windows
\* getAll reports and, for each window, exactly its tabs, each once, the
\* registry it leaves is the loaded one
C38_MatchIsRestored ==
  [][(/\ Handled
      /\ last'.op = "initialize"
      /\ last'.q.ok
      /\ loadTrackingState(flstState, now) # <<>>
      /\ ~Disagree(loadTrackingState(flstState, now), last'.q.windows))
     => trackers' = loadTrackingState(flstState, now)]_vars

\* C39: each browser event has at most one listener registered
C39_RegisteredOnce == sw.listeners <= 1

\* ------------------------------------------------------- dependencies
\* C4 where the close has left no entry of the closed tab behind: the only
\* runs that violate C4 are those with the duplicate entries of C1
C4_WithoutDuplicates ==
  [][(/\ Handled
      /\ NoDuplicates(trackers)
      /\ \A n \in 1..Len(trackers) : last.tab \notin TabIds(trackers[n].tabarr)
      /\ last.op = "closed" /\ last.branch = "select"
      /\ last'.op = "activated"
      /\ last'.tab = calls[1].tabId)
     => LET x == calls[1].tabId
            i == findTab(trackers, x).tr
        IN /\ skipNextActivation' = NoSkip
           /\ calls' = <<>>
           /\ Len(trackers') = Len(trackers)
           /\ getMostRecentTabId(trackers'[i].tabarr) = x
           /\ SortDesc(SelectSeq(trackers'[i].tabarr, LAMBDA e : e.tabId # x))
                = SortDesc(SelectSeq(trackers[i].tabarr, LAMBDA e : e.tabId # x))]_vars

\* C5 where the registry has no duplicate when the close is handled
C5_WithoutDuplicates ==
  [][(/\ Handled
      /\ NoDuplicates(trackers)
      /\ last'.op = "closed"
      /\ SettingOn("flip")
      /\ findTab(trackers, last'.tab).tr # 0
      /\ Cardinality(TabIds(trackers[findTab(trackers, last'.tab).tr].tabarr)
                       \ {last'.tab}) >= 2)
     => LET c == last'.tab
            i == findTab(trackers, c).tr
        IN /\ Len(calls') = 1
           /\ calls'[1].op = "update"
           /\ calls'[1].tabId \in MaxOrderIds(trackers[i].tabarr, c)
           /\ c \notin TabIds(trackers'[i].tabarr)
           /\ getMostRecentTabId(trackers'[i].tabarr) = calls'[1].tabId]_vars

\* C9 where the registry has no duplicate when the reconciliation starts
C9_WithoutDuplicates ==
  [][(Handled /\ NoDuplicates(trackers) /\ last'.op = "reconcile" /\ last'.q.ok)
     => /\ TrackerWids(trackers') = SnapshotWindowIds(last'.q.windows)
        /\ \A w \in TrackerWids(trackers') :
             TrackedIds(trackers', w) = SnapshotTabIds(last'.q.windows, w)]_vars

\* C19 where the registry has no duplicate when the close is handled
C19_WithoutDuplicates ==
  [][(/\ Handled
      /\ NoDuplicates(trackers)
      /\ last'.op = "closed"
      /\ findTab(trackers, last'.tab).tr # 0)
     => LET c == last'.tab
            i == findTab(trackers, c).tr
            tabarr == trackers[i].tabarr
        IN /\ (~SettingOn("flip") \/ Len(tabarr) < 2)
                => (calls' = <<>> /\ skipNextActivation' = skipNextActivation)
           /\ Len(trackers') = Len(trackers)
           /\ c \notin TabIds(trackers'[i].tabarr)
           /\ trackers'[i].tabarr = SelectSeq(tabarr, LAMBDA e : e.tabId # c)
           /\ \A k \in 1..Len(trackers) : k # i => trackers'[k] = trackers[k]]_vars

\* C30 where the registry has no duplicate when the detachment is handled
C30_WithoutDuplicates ==
  [][(/\ Handled
      /\ NoDuplicates(trackers)
      /\ last'.op = "detached"
      /\ ~MissesWindow(last'.wid))
     => LET d == last'.tab
            i == getWindowTracker(trackers, last'.wid)
            tabarr == trackers[i].tabarr
            left == trackers'[i].tabarr
        IN /\ Len(trackers') = Len(trackers)
           /\ d \notin TabIds(left)
           /\ left = SelectSeq(tabarr, LAMBDA e : e.tabId # d)
           /\ IF left # <<>>
              THEN /\ calls' = <<[op |-> "update", tabId |-> getMostRecentTabId(left)]>>
                   /\ skipNextActivation'.reason = "Detach"
              ELSE /\ calls' = <<>>
                   /\ skipNextActivation' = skipNextActivation]_vars

\* C31 for every handleNewTab, whatever was set: the tab goes to the front
\* and no chrome.tabs.update is issued
C31_AlwaysChromeStandard ==
  [][(/\ Handled
      /\ last'.op = "created"
      /\ ~MissesWindow(last'.wid)
      /\ last'.tab \notin TabIds(trackers[getWindowTracker(trackers, last'.wid)].tabarr))
     => LET t == last'.tab
            i == getWindowTracker(trackers, last'.wid)
            tabarr == trackers'[i].tabarr
        IN /\ [op |-> "move", tabId |-> t] \in {calls'[k] : k \in 1..Len(calls')}
                => (SettingOn("reloc") /\ trackers[i].moveok)
           /\ Len(SelectSeq(tabarr, LAMBDA e : e.tabId = t)) = 1
           /\ [op |-> "update", tabId |-> t] \notin {calls'[k] : k \in 1..Len(calls')}
           /\ tabarr[1].tabId = t]_vars

\* C32 where the registry has one tracker per window when the removal is handled
C32_WithoutDuplicateTrackers ==
  [][(/\ Handled
      /\ last'.op = "windowRemoved"
      /\ \A i, j \in 1..Len(trackers) : trackers[i].wid = trackers[j].wid => i = j)
     => last'.wid \notin TrackerWids(trackers')]_vars


\* with one tracker per window in the loaded registry, initialize discards
\* every loaded registry that disagrees with the reported windows
C33_WithoutDuplicateTrackers ==
  [][(/\ Handled
      /\ last'.op = "initialize"
      /\ last'.q.ok
      /\ loadTrackingState(flstState, now) # <<>>
      /\ Cardinality(TrackerWids(loadTrackingState(flstState, now)))
           = Len(loadTrackingState(flstState, now))
      /\ Disagree(loadTrackingState(flstState, now), last'.q.windows))
     => trackers' = setTracking(last'.q.windows, now)]_vars

====
